---- MODULE Spec2Model ----
(***************************************************************************)
(* Reference database of creature species with its two reporting queries:  *)
(* the evolution-line query and the trait query (recursive CTEs), and the  *)
(* loading of its tables by single-row INSERTs under the constraints of    *)
(* the schema, the DROP statements that open the two SQL scripts, and the  *)
(* backend's startup script (authenticate and sync on a Sequelize          *)
(* instance).                                                              *)
(*                                                                         *)
(* Tables are sets of rows.  Row multiplicity is not observable in either  *)
(* query's output: both end in GROUP BY with MAX / STRING_AGG(DISTINCT).   *)
(* SQL NULL is the value NULL below.  A DECIMAL chance is kept in          *)
(* ten-thousandths (0.2143 is 2143).                                       *)
(***************************************************************************)
EXTENDS Integers, Sequences, FiniteSets, TLC

VARIABLES types, coromon, type_effectiveness, coromon_evolutions,
          traits, trait_versions, coromon_traits, sqlstate,
          pc, work, iter,
          EvolutionLine, line_rows, evolution_lines,
          EvolutionChain, rows, result,
          relations, script, stmt,
          main_pc, sequelize, auth, sync, console

vars == <<types, coromon, type_effectiveness, coromon_evolutions,
          traits, trait_versions, coromon_traits, sqlstate,
          pc, work, iter,
          EvolutionLine, line_rows, evolution_lines,
          EvolutionChain, rows, result,
          relations, script, stmt,
          main_pc, sequelize, auth, sync, console>>

\* the relations that exist, and the SQL script being run with its next statement
script_run == <<relations, script, stmt>>
\* the backend's startup: the main script, the Sequelize instance, the
\* promise chains of authenticate() and sync(), the console
startup == <<main_pc, sequelize, auth, sync, console>>
environment == <<script_run, startup>>

line_query == <<EvolutionLine, line_rows, evolution_lines>>
trait_query == <<EvolutionChain, rows, result>>

tables == <<types, coromon, type_effectiveness, coromon_evolutions,
            traits, trait_versions, coromon_traits>>

NULL == -1

(* ------------------------------ bounds -------------------------------- *)

\* number of ordinary species (ids 1..NumRegular) in the bounded datasets,
\* which hold one Titan (id TitanBase) besides them
NumRegular == 3
\* number of species in the datasets that may violate the link invariant
NumAnySpecies == 3
\* cap on the iterations of a recursive CTE that the model follows
MaxIter == 7

\* number of trait ids in the datasets whose trait names may repeat
NumTraitIds == 2

\* number of species ids the loaded rows may name
NumLoadSpecies == 2
\* cap on the rows held by the tables that the load fills
MaxLoadRows == 3

(* outcome of the last INSERT: accepted, or rejected by a PRIMARY KEY / *)
(* UNIQUE constraint, or rejected by a FOREIGN KEY constraint          *)
Success == "successful_completion"
UniqueViolation == "unique_violation"
ForeignKeyViolation == "foreign_key_violation"
(* outcome of a DROP that other objects depend on, and of a query on a *)
(* table that does not exist                                           *)
DependentObjectsStillExist == "dependent_objects_still_exist"
UndefinedTable == "undefined_table"

(* ------------------------------ schema -------------------------------- *)

\* CREATE TABLE, in the order of init.sql
SchemaTables ==
    {"types", "coromon", "type_effectiveness", "coromon_evolutions", "traits",
     "trait_versions", "coromon_traits", "effect_types", "trait_version_effects",
     "coromon_stats", "skills", "coromon_skills", "skill_effect_types", "skill_effects"}

\* CREATE TYPE ... AS ENUM
SchemaEnums ==
    {"traits_type", "effect_types_type", "coromon_stats_stat_type", "skill_effect_types_type"}

\* <<table, object it depends on>>: FOREIGN KEY ... REFERENCES, and columns of an enum type
Depends ==
    {<<"coromon", "types">>, <<"type_effectiveness", "types">>,
     <<"coromon_evolutions", "coromon">>,
     <<"traits", "traits_type">>,
     <<"coromon_traits", "traits">>, <<"coromon_traits", "coromon">>,
     <<"effect_types", "effect_types_type">>,
     <<"trait_version_effects", "trait_versions">>, <<"trait_version_effects", "effect_types">>,
     <<"coromon_stats", "coromon_stats_stat_type">>, <<"coromon_stats", "coromon">>,
     <<"skills", "types">>,
     <<"coromon_skills", "coromon">>, <<"coromon_skills", "skills">>,
     <<"skill_effect_types", "skill_effect_types_type">>,
     <<"skill_effects", "skills">>, <<"skill_effects", "skill_effect_types">>}

\* the DROP statements of delete.sql, in order
DeleteSqlDrops == <<
    [kind |-> "TABLE", name |-> "skill_effects"],
    [kind |-> "TABLE", name |-> "skill_effect_types"],
    [kind |-> "TYPE",  name |-> "skill_effect_types_type"],
    [kind |-> "TABLE", name |-> "coromon_skills"],
    [kind |-> "TABLE", name |-> "skills"],
    [kind |-> "TABLE", name |-> "coromon_stats"],
    [kind |-> "TYPE",  name |-> "coromon_stats_stat_type"],
    [kind |-> "TABLE", name |-> "trait_version_effects"],
    [kind |-> "TABLE", name |-> "effect_types"],
    [kind |-> "TYPE",  name |-> "effect_types_type"],
    [kind |-> "TABLE", name |-> "coromon_traits"],
    [kind |-> "TABLE", name |-> "trait_versions"],
    [kind |-> "TABLE", name |-> "traits"],
    [kind |-> "TYPE",  name |-> "traits_type"],
    [kind |-> "TABLE", name |-> "type_effectiveness"],
    [kind |-> "TABLE", name |-> "coromon_evolutions"],
    [kind |-> "TABLE", name |-> "coromon"],
    [kind |-> "TABLE", name |-> "types"] >>

\* the DROP statements of the script that holds both queries, in order
QueryScriptDrops == <<
    [kind |-> "TABLE", name |-> "coromon_skills"],
    [kind |-> "TABLE", name |-> "skills"],
    [kind |-> "TABLE", name |-> "coromon_stats"],
    [kind |-> "TYPE",  name |-> "coromon_stats_stat_type"],
    [kind |-> "TABLE", name |-> "coromon_traits"],
    [kind |-> "TABLE", name |-> "trait_versions"],
    [kind |-> "TABLE", name |-> "traits"],
    [kind |-> "TYPE",  name |-> "traits_type"],
    [kind |-> "TABLE", name |-> "type_effectiveness"],
    [kind |-> "TABLE", name |-> "coromon_evolutions"],
    [kind |-> "TABLE", name |-> "coromon"],
    [kind |-> "TABLE", name |-> "types"] >>

Scripts == {"delete.sql", "part_002"}

DropsOf(name) == IF name = "delete.sql" THEN DeleteSqlDrops ELSE QueryScriptDrops

\* the queries that follow the DROP statements of a script
QueriesOf(name) == IF name = "delete.sql" THEN <<"EvolutionLine">> ELSE <<"EvolutionLine", "EvolutionChain">>

\* the tables a query reads
TablesOf(query) ==
    IF query = "EvolutionLine" THEN {"coromon_evolutions", "coromon"}
    ELSE {"coromon", "coromon_evolutions", "coromon_traits", "traits"}

(* ------------------------- backend startup ---------------------------- *)

\* process.env as config/db.js reads it: a variable is unset, or holds a text
Unset == "undefined"
EnvHosts == {Unset, "", "db"}
EnvPorts == {Unset, "5433"}

\* a || b of JavaScript on these values: undefined and '' are falsy
OrElse(a, b) == IF a = Unset \/ a = "" THEN b ELSE a

\* new Sequelize(..., {host, port, dialect, logging}); the port is kept as text
SequelizeOf(env_host, env_port) ==
    [host |-> OrElse(env_host, "localhost"), port |-> OrElse(env_port, "5432"),
     dialect |-> "postgres", logging |-> FALSE]

NoInstance == [host |-> "", port |-> "", dialect |-> "", logging |-> FALSE]

\* a promise chain p.then(f).catch(g): outcome is the state of p itself,
\* state the state handed to the reaction at place at of the chain
NotCalled == [outcome |-> "none", state |-> "none", at |-> 0]
Pending == [outcome |-> "pending", state |-> "pending", at |-> 1]

\* the chain of authenticate() without its .catch
AuthChainThenOnly == <<
    [kind |-> "then", stream |-> "log", text |-> "Database connected!"] >>

\* sequelize.authenticate().then(...).catch(...)
AuthChain == <<
    [kind |-> "then",  stream |-> "log",   text |-> "Database connected!"],
    [kind |-> "catch", stream |-> "error", text |-> "Database connection failed:"] >>

\* sequelize.sync().then(...).catch(...)
SyncChain == <<
    [kind |-> "then",  stream |-> "log",   text |-> "Models synced!"],
    [kind |-> "catch", stream |-> "error", text |-> "Model syncing failed:"] >>

\* a then-reaction runs its callback on fulfilment, a catch-reaction on rejection
Handles(h, state) ==
    \/ h.kind = "then" /\ state = "fulfilled"
    \/ h.kind = "catch" /\ state = "rejected"

\* the promise settles: its first reaction is queued
Settled(p, outcome) == [p EXCEPT !.outcome = outcome, !.state = outcome]

\* the chain after its next reaction: a callback that runs returns undefined,
\* which fulfils the derived promise; otherwise the state is passed on
Reacted(chain, p) ==
    IF Handles(chain[p.at], p.state) THEN [p EXCEPT !.state = "fulfilled", !.at = @ + 1]
    ELSE [p EXCEPT !.at = @ + 1]

\* what the next reaction writes to the console
Logged(chain, p) ==
    IF Handles(chain[p.at], p.state)
    THEN <<[stream |-> chain[p.at].stream, text |-> chain[p.at].text]>>
    ELSE <<>>

\* every reaction of the chain has run
Finished(chain, p) == p.state \in {"fulfilled", "rejected"} /\ p.at > Len(chain)

\* the last promise of the chain is rejected and nothing handles it
UnhandledRejection(chain, p) == Finished(chain, p) /\ p.state = "rejected"

(* first Titan id of the seed *)
TitanBase == 1000
(* the evolution-line query keeps coro_id <= 999 *)
MaxRegularId == 999

(* ----------------------------- seed data ------------------------------ *)

\* INSERT INTO coromon: <<coro_id, name>>
SeedCoromonRows == <<
    <<1, "Cubzero">>, <<2, "Aroara">>, <<3, "Bearealis">>,
    <<4, "Toruga">>, <<5, "Embaval">>, <<6, "Volcadon">>,
    <<7, "Nibblegar">>, <<8, "Sheartooth">>, <<9, "Megalobite">>,
    <<10, "Swurmy">>, <<11, "Beezel">>, <<12, "Humbee">>,
    <<13, "Silquill">>, <<14, "Gildwing">>, <<15, "Golbeak">>,
    <<16, "Slitherpin">>, <<17, "Serpike">>, <<18, "Houndos">>,
    <<19, "Hountrion">>, <<20, "Armado">>, <<21, "Armadil">>,
    <<22, "Armadon">>, <<23, "Sanscale">>, <<24, "Caradune">>,
    <<25, "Bittybolt">>, <<26, "Toravolt">>, <<27, "Bloby">>,
    <<28, "Molteye">>, <<29, "Ashclops">>, <<30, "Fiddly">>,
    <<31, "Ucaclaw">>, <<32, "Moffel">>, <<33, "Digmow">>,
    <<34, "Dugterra">>, <<35, "Buzzlet">>, <<36, "Bazzer">>,
    <<37, "Rhynobuz">>, <<38, "Lunarpup">>, <<39, "Lunarwulf">>,
    <<40, "Eclyptor">>, <<41, "Kryo">>, <<42, "Krypeek">>,
    <<43, "Krybeest">>, <<44, "Bren">>, <<45, "Pyrochick">>,
    <<46, "Infinix">>, <<47, "Acie">>, <<48, "Deecie">>,
    <<49, "Kyreptil">>, <<50, "Kyraptor">>, <<51, "Gella">>,
    <<52, "Gellish">>, <<53, "Gelaquad">>, <<54, "Skarbone">>,
    <<55, "Skuldra">>, <<56, "Skelatops">>, <<57, "Droople">>,
    <<58, "Mudma">>, <<59, "Arcta">>, <<60, "Arcturos">>,
    <<61, "Seraphace">>, <<62, "Grimmask">>, <<63, "Squidma">>,
    <<64, "Magmilus">>, <<65, "Lumon">>, <<66, "Lampyre">>,
    <<67, "Lumasect">>, <<68, "Patterbit">>, <<69, "Pitterbyte">>,
    <<70, "Cyberite">>, <<71, "Decibite">>, <<72, "Centilla">>,
    <<73, "Millidont">>, <<74, "Taddle">>, <<75, "Fibio">>,
    <<76, "Chonktoad">>, <<77, "Tinshel">>, <<78, "Dunpod">>,
    <<79, "Sandril">>, <<80, "Blizzburd">>, <<81, "Blizzian">>,
    <<82, "Purrgy">>, <<83, "Ghinx">>, <<84, "Purrghast">>,
    <<85, "Gauslime">>, <<86, "Magnamire">>, <<87, "Quagoo">>,
    <<88, "Swampa">>, <<89, "Squidly">>, <<90, "Octotle">>,
    <<91, "Ruptius">>, <<92, "Vulbrute">>, <<93, "Mooby">>,
    <<94, "Molbash">>, <<95, "Malavite">>, <<96, "Flowish">>,
    <<97, "Daricara">>, <<98, "Mino">>, <<99, "Blazitaur">>,
    <<100, "Frova">>, <<101, "Froshell">>, <<102, "Glamoth">>,
    <<103, "Otogy">>, <<104, "Orotchy">>, <<105, "Shimshell">>,
    <<106, "Atlantern">>, <<107, "Lemobi">>, <<108, "Makinja">>,
    <<109, "Glacikid">>, <<110, "Arctiram">>, <<111, "Crimsonite Fiddly">>,
    <<112, "Crimsonite Ucaclaw">>, <<113, "Crimsonite Lumon">>, <<114, "Crimsonite Lampyre">>,
    <<115, "Crimsonite Lumasect">>, <<116, "Crimsonite Decibite">>, <<117, "Crimsonite Centilla">>,
    <<118, "Crimsonite Millidont">>, <<119, "Crimsonite Arcta">>, <<120, "Crimsonite Arcturos">>,
    <<121, "Crimsonite Otogy">>, <<122, "Crimsonite Orotchy">>, <<123, "Crimsonite Squidma">>,
    <<124, "Crimsonite Magmilus">>, <<1000, "Voltgar">>, <<1001, "Illuginn">>,
    <<1002, "Sart">>, <<1003, "Hozai">>, <<1004, "Vørst">>,
    <<1005, "Chalchiu">>, <<1006, "Dark Form Chalchiu">> >>

\* the names of SeedCoromonRows in ascending order (code-point order; the
\* names used by the bounded datasets are single capitalised ASCII words,
\* on which the usual collations agree)
SeedNameOrder == <<
    "Acie", "Arcta", "Arctiram", "Arcturos", "Armadil",
    "Armado", "Armadon", "Aroara", "Ashclops", "Atlantern",
    "Bazzer", "Bearealis", "Beezel", "Bittybolt", "Blazitaur",
    "Blizzburd", "Blizzian", "Bloby", "Bren", "Buzzlet",
    "Caradune", "Centilla", "Chalchiu", "Chonktoad", "Crimsonite Arcta",
    "Crimsonite Arcturos", "Crimsonite Centilla", "Crimsonite Decibite", "Crimsonite Fiddly", "Crimsonite Lampyre",
    "Crimsonite Lumasect", "Crimsonite Lumon", "Crimsonite Magmilus", "Crimsonite Millidont", "Crimsonite Orotchy",
    "Crimsonite Otogy", "Crimsonite Squidma", "Crimsonite Ucaclaw", "Cubzero", "Cyberite",
    "Daricara", "Dark Form Chalchiu", "Decibite", "Deecie", "Digmow",
    "Droople", "Dugterra", "Dunpod", "Eclyptor", "Embaval",
    "Fibio", "Fiddly", "Flowish", "Froshell", "Frova",
    "Gauslime", "Gelaquad", "Gella", "Gellish", "Ghinx",
    "Gildwing", "Glacikid", "Glamoth", "Golbeak", "Grimmask",
    "Houndos", "Hountrion", "Hozai", "Humbee", "Illuginn",
    "Infinix", "Krybeest", "Kryo", "Krypeek", "Kyraptor",
    "Kyreptil", "Lampyre", "Lemobi", "Lumasect", "Lumon",
    "Lunarpup", "Lunarwulf", "Magmilus", "Magnamire", "Makinja",
    "Malavite", "Megalobite", "Millidont", "Mino", "Moffel",
    "Molbash", "Molteye", "Mooby", "Mudma", "Nibblegar",
    "Octotle", "Orotchy", "Otogy", "Patterbit", "Pitterbyte",
    "Purrghast", "Purrgy", "Pyrochick", "Quagoo", "Rhynobuz",
    "Ruptius", "Sandril", "Sanscale", "Sart", "Seraphace",
    "Serpike", "Sheartooth", "Shimshell", "Silquill", "Skarbone",
    "Skelatops", "Skuldra", "Slitherpin", "Squidly", "Squidma",
    "Swampa", "Swurmy", "Taddle", "Tinshel", "Toravolt",
    "Toruga", "Ucaclaw", "Volcadon", "Voltgar", "Vulbrute",
    "Vørst" >>

\* INSERT INTO coromon_evolutions: <<coro_id, pre_evo_coro_id, next_evo_coro_id>>,
\* the name sub-selects resolved against SeedCoromonRows
SeedEvolutionRows == <<
    <<1, NULL, 2>>, <<2, 1, 3>>, <<3, 2, NULL>>, <<4, NULL, 5>>,
    <<5, 4, 6>>, <<6, 5, NULL>>, <<7, NULL, 8>>, <<8, 7, 9>>,
    <<9, 8, NULL>>, <<10, NULL, 11>>, <<11, 10, 12>>, <<12, 11, NULL>>,
    <<13, NULL, 14>>, <<14, 13, 15>>, <<15, 14, NULL>>, <<16, NULL, 17>>,
    <<17, 16, NULL>>, <<18, NULL, 19>>, <<19, 18, NULL>>, <<20, NULL, 21>>,
    <<21, 20, 22>>, <<22, 21, NULL>>, <<23, NULL, 24>>, <<24, 23, NULL>>,
    <<25, NULL, 26>>, <<26, 25, NULL>>, <<27, NULL, 28>>, <<28, 27, 29>>,
    <<29, 28, NULL>>, <<30, NULL, 31>>, <<31, 30, NULL>>, <<32, NULL, 33>>,
    <<33, 32, 34>>, <<34, 33, NULL>>, <<35, NULL, 36>>, <<36, 35, 37>>,
    <<37, 36, NULL>>, <<38, NULL, 39>>, <<39, 38, 40>>, <<40, 39, NULL>>,
    <<41, NULL, 42>>, <<42, 41, 43>>, <<43, 42, NULL>>, <<44, NULL, 45>>,
    <<45, 44, 46>>, <<46, 45, NULL>>, <<47, NULL, 48>>, <<48, 47, NULL>>,
    <<49, NULL, 50>>, <<50, 49, NULL>>, <<51, NULL, 52>>, <<52, 51, 53>>,
    <<53, 52, NULL>>, <<54, NULL, 55>>, <<55, 54, 56>>, <<56, 55, NULL>>,
    <<57, NULL, 58>>, <<58, 57, NULL>>, <<59, NULL, 60>>, <<60, 59, NULL>>,
    <<61, NULL, 62>>, <<62, 61, NULL>>, <<63, NULL, 64>>, <<64, 63, NULL>>,
    <<65, NULL, 66>>, <<66, 65, 67>>, <<67, 66, NULL>>, <<68, NULL, 69>>,
    <<69, 68, 70>>, <<70, 69, NULL>>, <<71, NULL, 72>>, <<72, 71, 73>>,
    <<73, 72, NULL>>, <<74, NULL, 75>>, <<75, 74, 76>>, <<76, 75, NULL>>,
    <<77, NULL, 78>>, <<78, 77, 79>>, <<79, 78, NULL>>, <<80, NULL, 81>>,
    <<81, 80, NULL>>, <<82, NULL, 83>>, <<83, 82, 84>>, <<84, 83, NULL>>,
    <<85, NULL, 86>>, <<86, 85, NULL>>, <<87, NULL, 88>>, <<88, 87, NULL>>,
    <<89, NULL, 90>>, <<90, 89, NULL>>, <<91, NULL, 92>>, <<92, 91, NULL>>,
    <<93, NULL, 94>>, <<94, 93, 95>>, <<95, 94, NULL>>, <<96, NULL, 97>>,
    <<97, 96, NULL>>, <<98, NULL, 99>>, <<99, 98, NULL>>, <<100, NULL, 101>>,
    <<101, 100, 102>>, <<102, 101, NULL>>, <<103, NULL, 104>>, <<104, 103, NULL>>,
    <<105, NULL, 106>>, <<106, 105, NULL>>, <<107, NULL, 108>>, <<108, 107, NULL>>,
    <<109, NULL, 110>>, <<110, 109, NULL>>, <<111, NULL, 112>>, <<112, 111, NULL>>,
    <<113, NULL, 114>>, <<114, 113, 115>>, <<115, 114, NULL>>, <<116, NULL, 117>>,
    <<117, 116, 118>>, <<118, 117, NULL>>, <<119, NULL, 120>>, <<120, 119, NULL>>,
    <<121, NULL, 122>>, <<122, 121, NULL>>, <<123, NULL, 124>>, <<124, 123, NULL>>,
    <<1000, NULL, NULL>>, <<1001, NULL, NULL>>, <<1002, NULL, NULL>>, <<1003, NULL, NULL>>,
    <<1004, NULL, NULL>>, <<1005, NULL, 1006>>, <<1006, 1005, NULL>> >>

\* INSERT INTO coromon_evolutions, column condition_to_evolve, row by row in
\* the order of SeedEvolutionRows: {} for NULL, else the one text
SeedEvolutionConditions == <<
    {"Level 16"}, {"Level 34"}, {}, {"Level 16"}, {"Level 36"}, {}, {"Level 17"}, {"Level 35"}, {},
    {"Level 14, Attack is raised 6 stages in a single battle"}, {"Level 28"}, {}, {"Level 15"},
    {"Level 41"}, {}, {"Level 25"}, {}, {"Level 34"}, {}, {"Level 18"}, {"Level 33"}, {},
    {"Level 30"}, {}, {"Level 30"}, {}, {"Level 23"}, {"Level 44"}, {}, {"Level 34"}, {},
    {"Level 17"}, {"Level 31"}, {}, {"Level 17"}, {"Level 36"}, {}, {"Level 21"},
    {"Level 39, Two Opponent Lunarwulfs use Howl in the same turn"}, {}, {"Level 18"},
    {"Level 39"}, {}, {"Level 12"}, {"Level 34"}, {}, {"Level 35"}, {}, {"Level 37"}, {},
    {"Level 21"}, {"Level 34"}, {}, {"Level 18"}, {"Level 37"}, {}, {"Level 28"}, {}, {"Level 24"},
    {}, {"Level 32"}, {}, {"Level 30"}, {}, {"Level 16"}, {"Level 30"}, {},
    {"Level 30, When a Pitterbyte Kernel is installed"}, {"Level 50"}, {}, {"Level 24"},
    {"Level 39"}, {}, {"Level 18"}, {"Level 38"}, {}, {"Level 18"}, {"Level 32"}, {}, {"Level 40"},
    {}, {"Level 38, Every Purrgy Nibbles eaten lowers level by 1"}, {"Level 50"}, {}, {"Level 38"},
    {}, {"Level 32"}, {}, {"Level 37, When its spinner is dipped into the Witchs Kettle"}, {},
    {"Level 42"}, {}, {"Level 23"}, {"Level 45"}, {}, {"Level 39"}, {}, {"Level 32"}, {},
    {"Level 20"}, {"Level 38"}, {}, {"Level 40"}, {}, {"Level 38"}, {}, {"Level 33"}, {}, {"38"},
    {}, {"Level 34"}, {}, {"Level 16"}, {"Level 30"}, {}, {"Level 24"}, {"Level 39"}, {},
    {"Level 24"}, {}, {"Level 40"}, {}, {"Level 30"}, {}, {}, {}, {}, {}, {}, {"Reach 50% Health"},
    {} >>

\* INSERT INTO traits: names in insertion order, trait_id is the identity column (1, 2, ...)
SeedTraitNames == <<
    "Accurate", "Acupuncture", "Afterburner", "Amplified",
    "Antarctic", "Antidote", "Anti-fungal", "Backup Plan",
    "Brave", "Bright Light", "Caffeinated", "Cleanse",
    "Clean Retreat", "Clear Skies", "Comeback", "Conductor",
    "Conserver", "Contained Power", "Cool Body", "Cosmic",
    "Coward", "Creeping Stare", "Crippler", "Dark Atmosphere",
    "Dimensional Eye", "Dirt Coat", "Disrupting Aura", "Dry Wind",
    "Empathetic", "Escapist", "Fast Learner", "Fast Metabolism",
    "Fearless", "Flare Intake", "Frost Layer", "Fully Rested",
    "Glacial Affinity", "Good Aim", "Gourmand", "Gravity Pull",
    "Gullible", "Hardheaded", "Hoarder", "Hot Headed",
    "Humidifier", "Impatient", "Inner Fire", "Intelligent",
    "Inverse", "Kindred Soul", "Low Density", "Lucky",
    "Magic Layer", "Magnetic", "Menacing", "Molter",
    "Motivated", "Nano Skin", "Neutralizer", "Nimble",
    "Ninja Sense", "Nurse", "Overclocker", "Patdown",
    "Pep Talk", "Polished Body", "Polluter", "Prepared",
    "Radiator", "Rebirth", "Reconstitution", "Regurgitator",
    "Reignite", "Resistant", "Restless", "Robber",
    "Scrapper", "Sharp Claws", "Shiny", "Shock Absorber",
    "Short Fused", "Slippery", "Snowman", "Soothing Aura",
    "Soul Eater", "Specialist", "Spiked Body", "Static Body",
    "Steady", "Steam Layer", "Sticky Layer", "Stinky",
    "Stoic", "Strategist", "Sugar Rush", "Supersensory",
    "Tactical Retreat", "Thermogenesis", "Thick Skin", "Pure Essence Voltgar",
    "Pure Essence Hozai", "Pure Essence Illuginn", "Pure Essence Vørst", "Pure Essence Sart",
    "Pure Essence Chalchiu", "Tough Feet", "Toxic Skin", "Vaccinated",
    "Vegetarian", "Vengeful", "Vigilant", "Water Cooled",
    "Weatherproof", "Wet Coat", "Zealous" >>

\* INSERT INTO coromon_traits: <<trait_id, coro_id, chance>>, chance in ten-thousandths
SeedCoromonTraitRows == <<
    <<93, 3, 3500>>, <<78, 3, 2500>>, <<18, 3, 2500>>, <<60, 3, 1500>>,
    <<99, 6, 2500>>, <<90, 6, 2000>>, <<39, 6, 1500>>, <<32, 6, 2500>>,
    <<67, 6, 1500>>, <<111, 9, 2000>>, <<96, 9, 2000>>, <<112, 9, 2000>>,
    <<36, 9, 2000>>, <<114, 9, 2000>>, <<41, 12, 2000>>, <<82, 12, 2000>>,
    <<47, 12, 2000>>, <<6, 12, 2000>>, <<74, 12, 2000>>, <<65, 15, 3000>>,
    <<30, 15, 2000>>, <<76, 15, 2000>>, <<113, 15, 1500>>, <<97, 15, 1500>>,
    <<71, 17, 2000>>, <<38, 17, 2000>>, <<56, 17, 2000>>, <<87, 17, 2000>>,
    <<29, 17, 2000>>, <<55, 19, 2500>>, <<21, 19, 3000>>, <<9, 19, 4500>>,
    <<43, 22, 2000>>, <<99, 22, 2000>>, <<108, 22, 2000>>, <<64, 22, 2000>>,
    <<94, 22, 2000>>, <<99, 24, 3000>>, <<55, 24, 3000>>, <<26, 24, 4000>>,
    <<115, 26, 4000>>, <<88, 26, 3000>>, <<31, 26, 3000>>, <<110, 29, 2000>>,
    <<34, 29, 2000>>, <<41, 29, 2000>>, <<69, 29, 2000>>, <<98, 29, 2000>>,
    <<17, 31, 2500>>, <<36, 31, 3500>>, <<66, 31, 2000>>, <<45, 31, 2000>>,
    <<111, 34, 2143>>, <<30, 34, 3571>>, <<52, 34, 4286>>, <<38, 37, 2500>>,
    <<88, 37, 2500>>, <<46, 37, 2500>>, <<47, 37, 2500>>, <<25, 40, 3000>>,
    <<55, 40, 4000>>, <<24, 40, 1000>>, <<89, 40, 2000>>, <<79, 43, 1500>>,
    <<36, 43, 3500>>, <<19, 43, 2500>>, <<83, 43, 2500>>, <<4, 46, 2000>>,
    <<84, 46, 2000>>, <<3, 46, 2000>>, <<70, 46, 2000>>, <<98, 46, 2000>>,
    <<86, 48, 2000>>, <<53, 48, 2000>>, <<4, 48, 2000>>, <<14, 48, 2000>>,
    <<67, 48, 2000>>, <<68, 50, 2500>>, <<1, 50, 3500>>, <<78, 50, 4000>>,
    <<49, 53, 2000>>, <<112, 53, 2000>>, <<12, 53, 2000>>, <<108, 53, 2000>>,
    <<50, 53, 2000>>, <<23, 56, 1500>>, <<77, 56, 2000>>, <<26, 56, 2500>>,
    <<67, 56, 2500>>, <<46, 56, 1500>>, <<39, 58, 2000>>, <<72, 58, 2000>>,
    <<24, 58, 2000>>, <<91, 58, 2000>>, <<74, 58, 2000>>, <<52, 60, 2000>>,
    <<5, 60, 2500>>, <<83, 60, 3000>>, <<53, 60, 2500>>, <<33, 62, 2500>>,
    <<75, 62, 2500>>, <<85, 62, 3500>>, <<65, 62, 1500>>, <<34, 64, 2000>>,
    <<73, 64, 3000>>, <<44, 64, 2500>>, <<53, 64, 2500>>, <<4, 67, 2500>>,
    <<16, 67, 4000>>, <<10, 67, 3500>>, <<16, 70, 2000>>, <<76, 70, 2000>>,
    <<63, 70, 2500>>, <<13, 70, 2000>>, <<64, 70, 1500>>, <<59, 73, 2000>>,
    <<82, 73, 2000>>, <<109, 73, 2000>>, <<28, 73, 2000>>, <<58, 73, 2000>>,
    <<45, 76, 4000>>, <<107, 76, 4500>>, <<7, 76, 1500>>, <<31, 79, 3000>>,
    <<114, 79, 2000>>, <<21, 79, 3000>>, <<89, 79, 2000>>, <<48, 81, 3000>>,
    <<37, 81, 2500>>, <<19, 81, 2500>>, <<83, 81, 2000>>, <<50, 84, 4000>>,
    <<97, 84, 3000>>, <<8, 84, 3000>>, <<91, 86, 2000>>, <<92, 86, 2000>>,
    <<55, 86, 2000>>, <<40, 86, 2000>>, <<54, 86, 2000>>, <<17, 88, 3000>>,
    <<11, 88, 1500>>, <<112, 88, 4000>>, <<71, 88, 1500>>, <<20, 90, 3000>>,
    <<57, 90, 2000>>, <<24, 90, 3000>>, <<55, 90, 2000>>, <<81, 92, 4500>>,
    <<66, 92, 1500>>, <<73, 92, 2000>>, <<89, 92, 2000>>, <<51, 95, 3333>>,
    <<80, 95, 3333>>, <<28, 95, 3333>>, <<22, 97, 2000>>, <<2, 97, 2000>>,
    <<4, 97, 2000>>, <<114, 97, 2000>>, <<84, 97, 2000>>, <<15, 99, 2000>>,
    <<42, 99, 2000>>, <<57, 99, 2000>>, <<44, 99, 2000>>, <<106, 99, 2000>>,
    <<23, 102, 2000>>, <<11, 102, 3500>>, <<13, 102, 2500>>, <<37, 102, 2000>>,
    <<25, 104, 2000>>, <<27, 104, 1500>>, <<36, 104, 3500>>, <<13, 104, 3000>>,
    <<29, 106, 4000>>, <<62, 106, 3000>>, <<42, 106, 2000>>, <<79, 106, 1000>>,
    <<61, 108, 2000>>, <<95, 108, 2000>>, <<52, 108, 2000>>, <<84, 108, 2000>>,
    <<31, 108, 2000>>, <<35, 110, 2000>>, <<106, 110, 2000>>, <<87, 110, 2000>>,
    <<33, 110, 2000>>, <<37, 110, 2000>>, <<17, 112, 2500>>, <<36, 112, 3500>>,
    <<66, 112, 2000>>, <<45, 112, 2000>>, <<4, 115, 2500>>, <<16, 115, 4000>>,
    <<10, 115, 3500>>, <<82, 118, 3000>>, <<109, 118, 2500>>, <<28, 118, 3000>>,
    <<58, 118, 1500>>, <<52, 120, 2000>>, <<5, 120, 2500>>, <<83, 120, 3000>>,
    <<53, 120, 2500>>, <<25, 122, 2000>>, <<27, 122, 1500>>, <<36, 122, 3500>>,
    <<13, 122, 3000>>, <<34, 124, 2000>>, <<73, 124, 3000>>, <<44, 124, 2500>>,
    <<53, 124, 2500>>, <<100, 1000, 10000>>, <<102, 1001, 10000>>, <<104, 1002, 10000>>,
    <<101, 1003, 10000>>, <<103, 1004, 10000>>, <<105, 1005, 10000>>, <<105, 1006, 10000>> >>

\* INSERT INTO types: names in insertion order, type_id is the identity column (1, 2, ...)
SeedTypeNames == <<
    "Normal", "Electric", "Ghost", "Sand", "Fire", "Ice", "Water",
    "Magic", "Foul", "Heavy", "Air", "Poison", "Cut", "Crimsonite" >>

\* INSERT INTO type_effectiveness: <<attacking_type_id, defending_type_id, multiplier>>,
\* the name sub-selects resolved against SeedTypeNames, multiplier in tenths
SeedTypeEffectivenessRows == <<
    <<1, 1, 10>>, <<1, 2, 10>>, <<1, 3, 5>>, <<1, 4, 10>>,
    <<1, 5, 10>>, <<1, 6, 10>>, <<1, 7, 10>>, <<1, 14, 5>>,
    <<2, 1, 10>>, <<2, 2, 5>>, <<2, 3, 10>>, <<2, 4, 5>>,
    <<2, 5, 10>>, <<2, 6, 10>>, <<2, 7, 20>>, <<2, 14, 5>>,
    <<3, 1, 5>>, <<3, 2, 10>>, <<3, 3, 20>>, <<3, 4, 10>>,
    <<3, 5, 10>>, <<3, 6, 10>>, <<3, 7, 10>>, <<3, 14, 5>>,
    <<4, 1, 10>>, <<4, 2, 20>>, <<4, 3, 10>>, <<4, 4, 5>>,
    <<4, 5, 10>>, <<4, 6, 10>>, <<4, 7, 5>>, <<4, 14, 5>>,
    <<5, 1, 10>>, <<5, 2, 10>>, <<5, 3, 10>>, <<5, 4, 10>>,
    <<5, 5, 5>>, <<5, 6, 20>>, <<5, 7, 5>>, <<5, 14, 5>>,
    <<6, 1, 10>>, <<6, 2, 10>>, <<6, 3, 10>>, <<6, 4, 10>>,
    <<6, 5, 5>>, <<6, 6, 5>>, <<6, 7, 20>>, <<6, 14, 5>>,
    <<7, 1, 10>>, <<7, 2, 5>>, <<7, 3, 10>>, <<7, 4, 20>>,
    <<7, 5, 20>>, <<7, 6, 5>>, <<7, 7, 5>>, <<7, 14, 5>>,
    <<8, 1, 10>>, <<8, 2, 10>>, <<8, 3, 20>>, <<8, 4, 10>>,
    <<8, 5, 10>>, <<8, 6, 10>>, <<8, 7, 10>>, <<8, 14, 5>>,
    <<9, 1, 10>>, <<9, 2, 10>>, <<9, 3, 10>>, <<9, 4, 5>>,
    <<9, 5, 10>>, <<9, 6, 10>>, <<9, 7, 20>>, <<9, 14, 5>>,
    <<10, 1, 10>>, <<10, 2, 10>>, <<10, 3, 10>>, <<10, 4, 10>>,
    <<10, 5, 5>>, <<10, 6, 20>>, <<10, 7, 10>>, <<10, 14, 5>>,
    <<11, 1, 10>>, <<11, 2, 10>>, <<11, 3, 10>>, <<11, 4, 10>>,
    <<11, 5, 20>>, <<11, 6, 5>>, <<11, 7, 10>>, <<11, 14, 5>>,
    <<12, 1, 20>>, <<12, 2, 10>>, <<12, 3, 10>>, <<12, 4, 10>>,
    <<12, 5, 10>>, <<12, 6, 5>>, <<12, 7, 10>>, <<12, 14, 5>>,
    <<13, 1, 10>>, <<13, 2, 20>>, <<13, 3, 5>>, <<13, 4, 10>>,
    <<13, 5, 10>>, <<13, 6, 10>>, <<13, 7, 10>>, <<13, 14, 5>>,
    <<14, 1, 10>>, <<14, 2, 10>>, <<14, 3, 10>>, <<14, 4, 10>>,
    <<14, 5, 10>>, <<14, 6, 10>>, <<14, 7, 10>>, <<14, 14, 10>> >>

\* INSERT INTO trait_versions: <<trait_id, plus>>, the name sub-selects resolved
\* against SeedTraitNames
SeedTraitVersionRows == <<
    <<1, 0>>, <<1, 1>>, <<1, 2>>, <<2, 0>>, <<2, 1>>, <<2, 2>>,
    <<3, 0>>, <<3, 1>>, <<3, 2>>, <<4, 0>>, <<4, 1>>, <<4, 2>>,
    <<5, 0>>, <<5, 1>>, <<5, 2>>, <<6, 0>>, <<6, 1>>, <<6, 2>>,
    <<7, 0>>, <<7, 1>>, <<7, 2>>, <<8, 0>>, <<8, 1>>, <<8, 2>>,
    <<9, 0>>, <<9, 1>>, <<9, 2>>, <<10, 0>>, <<10, 1>>, <<10, 2>>,
    <<11, 0>>, <<11, 1>>, <<11, 2>>, <<12, 0>>, <<12, 1>>, <<12, 2>>,
    <<13, 0>>, <<13, 1>>, <<13, 2>>, <<14, 0>>, <<14, 1>>, <<14, 2>>,
    <<15, 0>>, <<15, 1>>, <<15, 2>>, <<16, 0>>, <<16, 1>>, <<16, 2>>,
    <<17, 0>>, <<17, 1>>, <<17, 2>>, <<18, 0>>, <<18, 1>>, <<18, 2>>,
    <<19, 0>>, <<19, 1>>, <<19, 2>>, <<20, 0>>, <<20, 1>>, <<20, 2>>,
    <<21, 0>>, <<21, 1>>, <<21, 2>>, <<22, 0>>, <<22, 1>>, <<22, 2>>,
    <<23, 0>>, <<23, 1>>, <<23, 2>>, <<24, 0>>, <<24, 1>>, <<24, 2>>,
    <<25, 0>>, <<25, 1>>, <<25, 2>>, <<26, 0>>, <<26, 1>>, <<26, 2>>,
    <<27, 0>>, <<27, 1>>, <<27, 2>>, <<28, 0>>, <<28, 1>>, <<28, 2>>,
    <<29, 0>>, <<29, 1>>, <<29, 2>>, <<30, 0>>, <<30, 1>>, <<30, 2>>,
    <<31, 0>>, <<31, 1>>, <<31, 2>>, <<32, 0>>, <<32, 1>>, <<32, 2>>,
    <<33, 0>>, <<33, 1>>, <<33, 2>>, <<34, 0>>, <<34, 1>>, <<34, 2>>,
    <<35, 0>>, <<35, 1>>, <<35, 2>>, <<36, 0>>, <<36, 1>>, <<36, 2>>,
    <<37, 0>>, <<37, 1>>, <<37, 2>>, <<38, 0>>, <<38, 1>>, <<38, 2>>,
    <<39, 0>>, <<39, 1>>, <<39, 2>>, <<40, 0>>, <<40, 1>>, <<40, 2>>,
    <<41, 0>>, <<41, 1>>, <<41, 2>>, <<42, 0>>, <<42, 1>>, <<42, 2>>,
    <<43, 0>>, <<43, 1>>, <<43, 2>>, <<44, 0>>, <<44, 1>>, <<44, 2>>,
    <<45, 0>>, <<45, 1>>, <<45, 2>>, <<46, 0>>, <<46, 1>>, <<46, 2>>,
    <<47, 0>>, <<47, 1>>, <<47, 2>>, <<48, 0>>, <<48, 1>>, <<48, 2>>,
    <<49, 0>>, <<49, 1>>, <<49, 2>>, <<50, 0>>, <<50, 1>>, <<50, 2>>,
    <<51, 0>>, <<51, 1>>, <<51, 2>>, <<52, 0>>, <<52, 1>>, <<52, 2>>,
    <<53, 0>>, <<53, 1>>, <<53, 2>>, <<54, 0>>, <<54, 1>>, <<54, 2>>,
    <<55, 0>>, <<55, 1>>, <<55, 2>>, <<56, 0>>, <<56, 1>>, <<56, 2>>,
    <<57, 0>>, <<57, 1>>, <<57, 2>>, <<58, 0>>, <<58, 1>>, <<58, 2>>,
    <<59, 0>>, <<59, 1>>, <<59, 2>>, <<60, 0>>, <<60, 1>>, <<60, 2>>,
    <<61, 0>>, <<61, 1>>, <<61, 2>>, <<62, 0>>, <<62, 1>>, <<62, 2>>,
    <<63, 0>>, <<63, 1>>, <<63, 2>>, <<64, 0>>, <<64, 1>>, <<64, 2>>,
    <<65, 0>>, <<65, 1>>, <<65, 2>>, <<66, 0>>, <<66, 1>>, <<66, 2>>,
    <<67, 0>>, <<67, 1>>, <<67, 2>>, <<68, 0>>, <<68, 1>>, <<68, 2>>,
    <<69, 0>>, <<69, 1>>, <<69, 2>>, <<70, 0>>, <<70, 1>>, <<70, 2>>,
    <<71, 0>>, <<71, 1>>, <<71, 2>>, <<72, 0>>, <<72, 1>>, <<72, 2>>,
    <<73, 0>>, <<73, 1>>, <<73, 2>>, <<74, 0>>, <<74, 1>>, <<74, 2>>,
    <<75, 0>>, <<75, 1>>, <<75, 2>>, <<76, 0>>, <<76, 1>>, <<76, 2>>,
    <<77, 0>>, <<77, 1>>, <<77, 2>>, <<78, 0>>, <<78, 1>>, <<78, 2>>,
    <<79, 0>>, <<79, 1>>, <<79, 2>>, <<80, 0>>, <<80, 1>>, <<80, 2>>,
    <<81, 0>>, <<81, 1>>, <<81, 2>>, <<82, 0>>, <<82, 1>>, <<82, 2>>,
    <<83, 0>>, <<83, 1>>, <<83, 2>>, <<84, 0>>, <<84, 1>>, <<84, 2>>,
    <<85, 0>>, <<85, 1>>, <<85, 2>>, <<86, 0>>, <<86, 1>>, <<86, 2>>,
    <<87, 0>>, <<87, 1>>, <<87, 2>>, <<88, 0>>, <<88, 1>>, <<88, 2>>,
    <<89, 0>>, <<89, 1>>, <<89, 2>>, <<90, 0>>, <<90, 1>>, <<90, 2>>,
    <<91, 0>>, <<91, 1>>, <<91, 2>>, <<92, 0>>, <<92, 1>>, <<92, 2>>,
    <<93, 0>>, <<93, 1>>, <<93, 2>>, <<94, 0>>, <<94, 1>>, <<94, 2>>,
    <<95, 0>>, <<95, 1>>, <<95, 2>>, <<96, 0>>, <<96, 1>>, <<96, 2>>,
    <<97, 0>>, <<97, 1>>, <<97, 2>>, <<98, 0>>, <<98, 1>>, <<98, 2>>,
    <<99, 0>>, <<99, 1>>, <<99, 2>>, <<106, 0>>, <<106, 1>>, <<106, 2>>,
    <<107, 0>>, <<107, 1>>, <<107, 2>>, <<108, 0>>, <<108, 1>>, <<108, 2>>,
    <<109, 0>>, <<109, 1>>, <<109, 2>>, <<110, 0>>, <<110, 1>>, <<110, 2>>,
    <<111, 0>>, <<111, 1>>, <<111, 2>>, <<112, 0>>, <<112, 1>>, <<112, 2>>,
    <<113, 0>>, <<113, 1>>, <<113, 2>>, <<114, 0>>, <<114, 1>>, <<114, 2>>,
    <<115, 0>>, <<115, 1>>, <<115, 2>>, <<100, 0>>, <<101, 0>>, <<102, 0>>,
    <<103, 0>>, <<104, 0>>, <<105, 0>> >>

SeedTypes == {[type_id |-> i, name |-> SeedTypeNames[i]] : i \in DOMAIN SeedTypeNames}

\* SeedTypeEffectiveness without the first row of the INSERT
SeedTypeEffectivenessFirstMissing ==
    {[attacking_type_id |-> SeedTypeEffectivenessRows[i][1],
      defending_type_id |-> SeedTypeEffectivenessRows[i][2],
      multiplier |-> SeedTypeEffectivenessRows[i][3]] :
        i \in DOMAIN SeedTypeEffectivenessRows \ {1}}

SeedTypeEffectiveness ==
    {[attacking_type_id |-> SeedTypeEffectivenessRows[i][1],
      defending_type_id |-> SeedTypeEffectivenessRows[i][2],
      multiplier |-> SeedTypeEffectivenessRows[i][3]] : i \in DOMAIN SeedTypeEffectivenessRows}

SeedTraitVersions ==
    {[trait_id |-> SeedTraitVersionRows[i][1], plus |-> SeedTraitVersionRows[i][2]] :
        i \in DOMAIN SeedTraitVersionRows}

SeedCoromon == {[coro_id |-> SeedCoromonRows[i][1], name |-> SeedCoromonRows[i][2]] :
                   i \in DOMAIN SeedCoromonRows}

\* SeedEvolutions with the last stage of the first chain pointing back at its root
SeedEvolutionsCycle ==
    {[coro_id |-> SeedEvolutionRows[i][1],
      pre_evo_coro_id |-> SeedEvolutionRows[i][2],
      next_evo_coro_id |-> IF i = 3 THEN SeedEvolutionRows[1][1] ELSE SeedEvolutionRows[i][3]] :
        i \in DOMAIN SeedEvolutionRows}

\* SeedEvolutions with a second row for the first species
SeedEvolutionsTwoRows ==
    {[coro_id |-> SeedEvolutionRows[i][1],
      pre_evo_coro_id |-> SeedEvolutionRows[i][2],
      next_evo_coro_id |-> SeedEvolutionRows[i][3]] : i \in DOMAIN SeedEvolutionRows}
    \cup {[coro_id |-> SeedEvolutionRows[1][1], pre_evo_coro_id |-> NULL, next_evo_coro_id |-> NULL]}

\* SeedEvolutions with Cubzero's row naming no successor, while Aroara's
\* row still names Cubzero as predecessor
SeedEvolutionsOneSided ==
    {[coro_id |-> SeedEvolutionRows[i][1],
      pre_evo_coro_id |-> SeedEvolutionRows[i][2],
      next_evo_coro_id |-> IF i = 1 THEN NULL ELSE SeedEvolutionRows[i][3]] :
        i \in DOMAIN SeedEvolutionRows}

SeedEvolutions ==
    {[coro_id |-> SeedEvolutionRows[i][1],
      pre_evo_coro_id |-> SeedEvolutionRows[i][2],
      next_evo_coro_id |-> SeedEvolutionRows[i][3]] : i \in DOMAIN SeedEvolutionRows}

SeedTraits == {[trait_id |-> i, name |-> SeedTraitNames[i]] : i \in DOMAIN SeedTraitNames}

\* SeedCoromonTraits without the rows of Bearealis (3), the last stage of the first chain
SeedCoromonTraitsTerminusBare ==
    {[trait_id |-> SeedCoromonTraitRows[i][1],
      coro_id |-> SeedCoromonTraitRows[i][2],
      chance |-> SeedCoromonTraitRows[i][3]] :
        i \in {j \in DOMAIN SeedCoromonTraitRows : SeedCoromonTraitRows[j][2] # 3}}

SeedCoromonTraits ==
    {[trait_id |-> SeedCoromonTraitRows[i][1],
      coro_id |-> SeedCoromonTraitRows[i][2],
      chance |-> SeedCoromonTraitRows[i][3]] : i \in DOMAIN SeedCoromonTraitRows}

(* --------------------------- SQL helpers ------------------------------ *)

Max(S) == CHOOSE x \in S : \A y \in S : y <= x
Min(S) == CHOOSE x \in S : \A y \in S : x <= y

\* MAX() aggregate: NULL inputs are ignored, no non-NULL input gives NULL
SqlMax(S) == IF S \ {NULL} = {} THEN NULL ELSE Max(S \ {NULL})

\* ROUND(chance * 100, 0) on a DECIMAL held in ten-thousandths
\* RoundPercent cutting the fraction off instead of rounding
RoundPercentDown(chance) == chance \div 100

RoundPercent(chance) == (chance + 50) \div 100

(* -------------------- the evolution-line query ------------------------ *)

\* ordering of names used when two evolution_path arrays are compared: the
\* rank of a name is its place in the species table sorted by name.  Only a
\* comparison of two different names at the same array index consults it,
\* which needs two paths of one base that diverge (branching links).
NameRank(name) == CHOOSE i \in DOMAIN SeedNameOrder : SeedNameOrder[i] = name

\* LineAnchor without pre_evo_coro_id IS NULL: every species starts a line
LineAnchorAnyStage ==
    {[base_coro_id |-> p[1].coro_id, coro_id |-> p[1].coro_id,
      pre_evo_coro_id |-> p[1].pre_evo_coro_id, next_evo_coro_id |-> p[1].next_evo_coro_id,
      evolution_path |-> <<p[2].name>>] :
        p \in {p \in coromon_evolutions \X coromon :
                 /\ p[1].coro_id = p[2].coro_id
                 /\ p[1].coro_id <= MaxRegularId}}

\* non-recursive term of EvolutionLine
LineAnchor ==
    {[base_coro_id |-> p[1].coro_id, coro_id |-> p[1].coro_id,
      pre_evo_coro_id |-> p[1].pre_evo_coro_id, next_evo_coro_id |-> p[1].next_evo_coro_id,
      evolution_path |-> <<p[2].name>>] :
        p \in {p \in coromon_evolutions \X coromon :
                 /\ p[1].coro_id = p[2].coro_id
                 /\ p[1].pre_evo_coro_id = NULL
                 /\ p[1].coro_id <= MaxRegularId}}

\* LineRecursive without its WHERE clause: ids above MaxRegularId are appended too
LineRecursiveNoFilter(W) ==
    {[base_coro_id |-> p[2].base_coro_id, coro_id |-> p[1].coro_id,
      pre_evo_coro_id |-> p[1].pre_evo_coro_id, next_evo_coro_id |-> p[1].next_evo_coro_id,
      evolution_path |-> Append(p[2].evolution_path, p[3].name)] :
        p \in {p \in coromon_evolutions \X W \X coromon :
                 /\ p[1].pre_evo_coro_id = p[2].coro_id
                 /\ p[1].coro_id = p[3].coro_id}}

\* recursive term of EvolutionLine, evaluated on the working table W
LineRecursive(W) ==
    {[base_coro_id |-> p[2].base_coro_id, coro_id |-> p[1].coro_id,
      pre_evo_coro_id |-> p[1].pre_evo_coro_id, next_evo_coro_id |-> p[1].next_evo_coro_id,
      evolution_path |-> Append(p[2].evolution_path, p[3].name)] :
        p \in {p \in coromon_evolutions \X W \X coromon :
                 /\ p[1].pre_evo_coro_id = p[2].coro_id
                 /\ p[1].coro_id = p[3].coro_id
                 /\ p[1].coro_id <= MaxRegularId}}

\* array comparison: the first differing element decides, else the shorter is smaller
ArrayLessEq(a, b) ==
    LET n == IF Len(a) <= Len(b) THEN Len(a) ELSE Len(b)
        d == {i \in 1 .. n : a[i] # b[i]}
    IN  IF d = {} THEN Len(a) <= Len(b)
        ELSE NameRank(a[Min(d)]) < NameRank(b[Min(d)])

ArrayMax(S) == CHOOSE x \in S : \A y \in S : ArrayLessEq(y, x)

\* ARRAY_TO_STRING(path, ' -> '): the names with the separator between them
RECURSIVE ArrayToString(_, _)
ArrayToString(path, sep) ==
    IF Len(path) <= 1 THEN path
    ELSE <<Head(path), sep>> \o ArrayToString(Tail(path), sep)

\* outer SELECT of the evolution-line query, one row per base_coro_id
LineSelect(EL) ==
    {[base_coro_id |-> b,
      evolution_line |-> ArrayToString(
          ArrayMax({el.evolution_path : el \in {e \in EL : e.base_coro_id = b}}), " -> ")] :
        b \in {el.base_coro_id : el \in EL}}

(* ----------------------- the trait query (CTEs) ----------------------- *)

\* rows of coromon_evolutions joined to a species id
EvolutionsOf(id) == {ce \in coromon_evolutions : ce.coro_id = id}

\* ChainAnchor without its WHERE clause: every species starts a chain
ChainAnchorNoFilter ==
    {[original_coro_id |-> c.coro_id, current_coro_id |-> c.coro_id, chain_position |-> 1] :
        c \in coromon}

\* non-recursive term of EvolutionChain
ChainAnchor ==
    {[original_coro_id |-> c.coro_id, current_coro_id |-> c.coro_id, chain_position |-> 1] :
        c \in {c \in coromon :
                 \/ EvolutionsOf(c.coro_id) = {}
                 \/ \E ce \in EvolutionsOf(c.coro_id) : ce.pre_evo_coro_id = NULL}}

\* ChainRecursive without the increment: every stage keeps its predecessor's position
ChainRecursiveSamePosition(W) ==
    {[original_coro_id |-> p[1].original_coro_id,
      current_coro_id  |-> p[2].next_evo_coro_id,
      chain_position   |-> p[1].chain_position] :
        p \in {p \in W \X coromon_evolutions :
                 /\ p[1].current_coro_id = p[2].coro_id
                 /\ p[2].next_evo_coro_id # NULL}}

\* recursive term of EvolutionChain, evaluated on the working table W
ChainRecursive(W) ==
    {[original_coro_id |-> p[1].original_coro_id,
      current_coro_id  |-> p[2].next_evo_coro_id,
      chain_position   |-> p[1].chain_position + 1] :
        p \in {p \in W \X coromon_evolutions :
                 /\ p[1].current_coro_id = p[2].coro_id
                 /\ p[2].next_evo_coro_id # NULL}}

\* ChainLength with MIN in place of MAX: every chain gets length 1
ChainLengthMin(EC) ==
    {[original_coro_id |-> o,
      total_length |-> CHOOSE m \in {ec.chain_position : ec \in {e \in EC : e.original_coro_id = o}} :
                          \A ec \in {e \in EC : e.original_coro_id = o} : m <= ec.chain_position] :
        o \in {ec.original_coro_id : ec \in EC}}

ChainLength(EC) ==
    {[original_coro_id |-> o,
      total_length |-> SqlMax({ec.chain_position : ec \in {e \in EC : e.original_coro_id = o}})] :
        o \in {ec.original_coro_id : ec \in EC}}

\* PlusCase with the first stage of a 2-stage chain given the middle tier
PlusCaseTwoStageOne(total_length, chain_position) ==
    CASE total_length = 3 /\ chain_position = 1 -> 2
      [] total_length = 3 /\ chain_position = 2 -> 1
      [] total_length = 3 /\ chain_position = 3 -> 0
      [] total_length = 2 /\ chain_position = 1 -> 1
      [] total_length = 2 /\ chain_position = 2 -> 0
      [] total_length = 1 -> 0
      [] OTHER -> NULL

\* PlusCase with ELSE 0 in place of ELSE NULL
PlusCaseElseZero(total_length, chain_position) ==
    CASE total_length = 3 /\ chain_position = 1 -> 2
      [] total_length = 3 /\ chain_position = 2 -> 1
      [] total_length = 3 /\ chain_position = 3 -> 0
      [] total_length = 2 /\ chain_position = 1 -> 2
      [] total_length = 2 /\ chain_position = 2 -> 0
      [] total_length = 1 -> 0
      [] OTHER -> 0

\* PlusCase with the single-stage branch giving the first-stage tier
PlusCaseSingleTwo(total_length, chain_position) ==
    CASE total_length = 3 /\ chain_position = 1 -> 2
      [] total_length = 3 /\ chain_position = 2 -> 1
      [] total_length = 3 /\ chain_position = 3 -> 0
      [] total_length = 2 /\ chain_position = 1 -> 2
      [] total_length = 2 /\ chain_position = 2 -> 0
      [] total_length = 1 -> 2
      [] OTHER -> NULL

\* the CASE expression of CoromonPlus
PlusCase(total_length, chain_position) ==
    CASE total_length = 3 /\ chain_position = 1 -> 2
      [] total_length = 3 /\ chain_position = 2 -> 1
      [] total_length = 3 /\ chain_position = 3 -> 0
      [] total_length = 2 /\ chain_position = 1 -> 2
      [] total_length = 2 /\ chain_position = 2 -> 0
      [] total_length = 1 -> 0
      [] OTHER -> NULL

CoromonPlus(EC) ==
    {[coromon_id |-> p[1].original_coro_id,
      current_coro_id |-> p[1].current_coro_id,
      chain_position |-> p[1].chain_position,
      total_length |-> p[2].total_length,
      plus |-> PlusCase(p[2].total_length, p[1].chain_position)] :
        p \in {p \in EC \X ChainLength(EC) :
                 p[1].original_coro_id = p[2].original_coro_id}}

\* FinalEvolution without its WHERE clause: MAX(current_coro_id) over the whole chain
FinalEvolutionAnyStage(EC) ==
    {[original_coro_id |-> o,
      final_coro_id |-> SqlMax({ec.current_coro_id : ec \in {e \in EC : e.original_coro_id = o}})] :
        o \in {ec.original_coro_id : ec \in EC}}

\* FinalEvolution without the grouping: the largest id among the stages
\* without successor of all chains
FinalEvolutionOfAll(EC) ==
    LET open == {ec \in EC :
                   \/ EvolutionsOf(ec.current_coro_id) = {}
                   \/ \E ce \in EvolutionsOf(ec.current_coro_id) : ce.next_evo_coro_id = NULL}
    IN  {[original_coro_id |-> o,
          final_coro_id |-> SqlMax({ec.current_coro_id : ec \in open})] :
            o \in {ec.original_coro_id : ec \in open}}

\* the last stage of each chain: the largest id among its stages without successor
FinalEvolution(EC) ==
    LET open == {ec \in EC :
                   \/ EvolutionsOf(ec.current_coro_id) = {}
                   \/ \E ce \in EvolutionsOf(ec.current_coro_id) : ce.next_evo_coro_id = NULL}
    IN  {[original_coro_id |-> o,
          final_coro_id |-> SqlMax({ec.current_coro_id : ec \in {e \in open : e.original_coro_id = o}})] :
            o \in {ec.original_coro_id : ec \in open}}

\* FinalEvolutionTraits joined on the chain's root instead of its last stage
FinalEvolutionTraitsOfRoot(EC) ==
    {[coromon_id |-> p[1].original_coro_id, trait_name |-> p[3].name, chance |-> p[2].chance] :
        p \in {p \in FinalEvolution(EC) \X coromon_traits \X traits :
                 /\ p[1].original_coro_id = p[2].coro_id
                 /\ p[2].trait_id = p[3].trait_id}}

FinalEvolutionTraits(EC) ==
    {[coromon_id |-> p[1].original_coro_id, trait_name |-> p[3].name, chance |-> p[2].chance] :
        p \in {p \in FinalEvolution(EC) \X coromon_traits \X traits :
                 /\ p[1].final_coro_id = p[2].coro_id
                 /\ p[2].trait_id = p[3].trait_id}}

CoromonTraits ==
    {[coromon_id |-> p[1].coro_id, trait_name |-> p[2].name, chance |-> p[1].chance] :
        p \in {p \in coromon_traits \X traits : p[1].trait_id = p[2].trait_id}}

\* the all-NULL right side a LEFT JOIN produces when nothing matches
NullPlus == [coromon_id |-> NULL, current_coro_id |-> NULL, chain_position |-> NULL,
             total_length |-> NULL, plus |-> NULL]
NullTrait == [coromon_id |-> NULL, trait_name |-> "", chance |-> NULL]

LeftJoin(matches, nullrow) == IF matches = {} THEN {nullrow} ELSE matches

\* Coalesce without its second argument: no fallback
CoalesceFirstOnly(a, b) == a

\* Coalesce with its arguments swapped: the fallback wins
CoalesceSwapped(a, b) == IF b.chance # NULL THEN b ELSE a

\* COALESCE(ct.trait_name, fet.trait_name) and COALESCE(ct.chance, fet.chance);
\* both columns are NOT NULL, so they are NULL together
Coalesce(a, b) == IF a.chance # NULL THEN a ELSE b

CombinedTraits(EC) ==
    LET CP  == CoromonPlus(EC)
        FET == FinalEvolutionTraits(EC)
        CT  == CoromonTraits
        joined(c) ==
            LET cps == LeftJoin({cp \in CP : cp.current_coro_id = c.coro_id}, NullPlus)
                cts == LeftJoin({ct \in CT : ct.coromon_id = c.coro_id}, NullTrait)
            IN  UNION {
                  {[coromon_id |-> c.coro_id, coromon_name |-> c.name, plus |-> cp.plus,
                    trait_name |-> Coalesce(ct, fet).trait_name,
                    chance |-> Coalesce(ct, fet).chance] :
                      fet \in LeftJoin({f \in FET : cp.coromon_id # NULL
                                                    /\ f.coromon_id = cp.coromon_id}, NullTrait)}
                  : <<cp, ct>> \in cps \X cts }
    IN  UNION {joined(c) : c \in coromon}

NoTraitsAvailable == [sentinel |-> TRUE, items |-> {}]

\* one formatted element: trait_name || ' (' || ROUND(chance * 100, 0) || '%)'
Formatted(trait_name, chance) == <<trait_name, RoundPercent(chance)>>

\* outer SELECT of the trait query, one row per (coromon_id, coromon_name)
TraitSelect(EC) ==
    LET CB == CombinedTraits(EC)
        grp(k) == {r \in CB : r.coromon_id = k[1] /\ r.coromon_name = k[2]}
        agg(g) == {Formatted(r.trait_name, r.chance) : r \in {r \in g : r.chance # NULL}}
    IN  {[coromon_id |-> k[1], coromon_name |-> k[2],
          plus |-> SqlMax({r.plus : r \in grp(k)}),
          traits |-> IF agg(grp(k)) = {} THEN NoTraitsAvailable
                     ELSE [sentinel |-> FALSE, items |-> agg(grp(k))]] :
            k \in {<<r.coromon_id, r.coromon_name>> : r \in CB}}

(* ------------------------- bounded datasets --------------------------- *)

Species == (1 .. NumRegular) \cup {TitanBase}
AnySpecies == 1 .. NumAnySpecies

\* the seed's species rows of the given ids
CoromonOf(S) == {c \in SeedCoromon : c.coro_id \in S}

\* successor references that form disjoint simple paths
RECURSIVE ReachesEnd(_, _, _)
ReachesEnd(f, id, fuel) ==
    IF f[id] = NULL THEN TRUE
    ELSE IF fuel = 0 THEN FALSE
    ELSE ReachesEnd(f, f[id], fuel - 1)

PathSuccessors(S) ==
    {f \in [S -> S \cup {NULL}] :
        /\ \A a, b \in S : (a # b /\ f[a] # NULL) => f[a] # f[b]
        /\ \A a \in S : ReachesEnd(f, a, Cardinality(S))}

PredecessorIn(f, S, id) ==
    IF \E a \in S : f[a] = id THEN CHOOSE a \in S : f[a] = id ELSE NULL

\* one row per species, predecessor and successor references mutually consistent
WellFormedLinks(S) ==
    {{[coro_id |-> id, pre_evo_coro_id |-> PredecessorIn(f, S, id), next_evo_coro_id |-> f[id]] :
        id \in S} : f \in PathSuccessors(S)}

\* successor references that name no species twice (paths and cycles)
InjectiveSuccessors(S) ==
    {f \in [S -> S \cup {NULL}] : \A a, b \in S : (a # b /\ f[a] # NULL) => f[a] # f[b]}

\* one row for each species of S, predecessor and successor references
\* mutually consistent; the links may close a cycle
ConsistentLinks(S) ==
    {{[coro_id |-> id, pre_evo_coro_id |-> PredecessorIn(f, S, id), next_evo_coro_id |-> f[id]] :
        id \in S} : f \in InjectiveSuccessors(S)}

\* one row per species, both references arbitrary (the schema only asks that
\* a non-NULL reference names a species)
AnyLinks(S) ==
    {{[coro_id |-> id, pre_evo_coro_id |-> g[id][1], next_evo_coro_id |-> g[id][2]] : id \in S} :
        g \in [S -> (S \cup {NULL}) \X (S \cup {NULL})]}

PoolTraits == {t \in SeedTraits : t.name \in {"Stoic", "Nimble"}}

PoolTraitVersions ==
    {tv \in SeedTraitVersions : \E t \in PoolTraits : t.trait_id = tv.trait_id}

PoolChance(trait_id, id) == 543 + 20 * trait_id + 250 * (id % 7)

\* both pool traits for each species of withTraits, every row with its own chance
PoolTraitRows(withTraits) ==
    {[trait_id |-> t.trait_id, coro_id |-> id, chance |-> PoolChance(t.trait_id, id)] :
        t \in PoolTraits, id \in withTraits}

\* traits tables over ids 1..NumTraitIds: trait_id is the key, name is any pool name
SameNameTraitTables ==
    {{[trait_id |-> i, name |-> n[i]] : i \in 1 .. NumTraitIds} :
        n \in [1 .. NumTraitIds -> {t.name : t \in PoolTraits}]}

SameNameChance(trait_id) == 2500 * trait_id

\* coromon_traits tables over those ids: at most one row per (trait_id, coro_id)
SameNameTraitRows(S) ==
    {{[trait_id |-> k[1], coro_id |-> k[2], chance |-> SameNameChance(k[1])] : k \in K} :
        K \in SUBSET ((1 .. NumTraitIds) \X S)}

(* ------------------------------ actions ------------------------------- *)

\* the type tables as seeded; the statements that filled the tables succeeded
ReferenceLoaded ==
    /\ types = SeedTypes
    /\ type_effectiveness = SeedTypeEffectiveness
    /\ sqlstate = Success

\* init.sql has run: every table and enum type exists
SchemaCreated == relations = SchemaTables \cup SchemaEnums

\* no script is being run
NoScript == script = "none" /\ stmt = 0

\* the backend has not been started
BackendDown ==
    /\ main_pc = "off"
    /\ sequelize = NoInstance
    /\ auth = NotCalled /\ sync = NotCalled
    /\ console = <<>>

QueryIdle ==
    /\ pc = "idle"
    /\ work = {} /\ iter = 0
    /\ EvolutionLine = {} /\ line_rows = {} /\ evolution_lines = <<>>
    /\ EvolutionChain = {} /\ rows = {} /\ result = <<>>

InitWellFormed ==
    /\ coromon = CoromonOf(Species)
    /\ coromon_evolutions \in WellFormedLinks(Species)
    /\ traits = PoolTraits
    /\ trait_versions = PoolTraitVersions
    /\ \E withTraits \in SUBSET Species : coromon_traits = PoolTraitRows(withTraits)
    /\ ReferenceLoaded
    /\ QueryIdle
    /\ SchemaCreated
    /\ NoScript
    /\ BackendDown

\* regular species only, link rows for some of them, references consistent
InitConsistent ==
    /\ coromon = CoromonOf(1 .. NumRegular)
    /\ \E S \in SUBSET (1 .. NumRegular) : coromon_evolutions \in ConsistentLinks(S)
    /\ traits = PoolTraits
    /\ trait_versions = PoolTraitVersions
    /\ \E withTraits \in SUBSET (1 .. NumRegular) : coromon_traits = PoolTraitRows(withTraits)
    /\ ReferenceLoaded
    /\ QueryIdle
    /\ SchemaCreated
    /\ NoScript
    /\ BackendDown

InitAny ==
    /\ coromon = CoromonOf(AnySpecies)
    /\ coromon_evolutions \in AnyLinks(AnySpecies)
    /\ traits = PoolTraits
    /\ trait_versions = PoolTraitVersions
    /\ \E withTraits \in SUBSET AnySpecies : coromon_traits = PoolTraitRows(withTraits)
    /\ ReferenceLoaded
    /\ QueryIdle
    /\ SchemaCreated
    /\ NoScript
    /\ BackendDown

InitSeed ==
    /\ coromon = SeedCoromon
    /\ coromon_evolutions = SeedEvolutions
    /\ traits = SeedTraits
    /\ trait_versions = SeedTraitVersions
    /\ coromon_traits = SeedCoromonTraits
    /\ ReferenceLoaded
    /\ QueryIdle
    /\ SchemaCreated
    /\ NoScript
    /\ BackendDown

InitSameNames ==
    /\ coromon = CoromonOf(AnySpecies)
    /\ coromon_evolutions \in WellFormedLinks(AnySpecies)
    /\ traits \in SameNameTraitTables
    /\ trait_versions = {[trait_id |-> t.trait_id, plus |-> 0] : t \in traits}
    /\ coromon_traits \in SameNameTraitRows(AnySpecies)
    /\ ReferenceLoaded
    /\ QueryIdle
    /\ SchemaCreated
    /\ NoScript
    /\ BackendDown

\* the evolution-line query starts: the non-recursive term fills result and working table
LineAnchorStep ==
    /\ pc = "idle"
    /\ script = "none"
    /\ TablesOf("EvolutionLine") \subseteq relations
    /\ EvolutionLine' = LineAnchor
    /\ work' = LineAnchor
    /\ iter' = 0
    /\ pc' = "line"
    /\ UNCHANGED <<tables, sqlstate, environment, line_rows, evolution_lines, trait_query>>

\* one iteration of the recursive term over the working table
LineRecursiveStep ==
    /\ pc = "line"
    /\ work # {}
    /\ iter < MaxIter
    /\ work' = LineRecursive(work)
    /\ EvolutionLine' = EvolutionLine \cup LineRecursive(work)
    /\ iter' = iter + 1
    /\ UNCHANGED <<tables, sqlstate, environment, pc, line_rows, evolution_lines, trait_query>>

\* the working table is empty: the outer SELECT is evaluated
LineSelectStep ==
    /\ pc = "line"
    /\ work = {}
    /\ line_rows' = LineSelect(EvolutionLine)
    /\ pc' = "line_fetch"
    /\ UNCHANGED <<tables, sqlstate, environment, work, iter, EvolutionLine, evolution_lines, trait_query>>

\* ORDER BY el.base_coro_id
FetchLineRow ==
    /\ pc = "line_fetch"
    /\ line_rows # {}
    /\ LET r == CHOOSE r \in line_rows : \A q \in line_rows : r.base_coro_id <= q.base_coro_id
       IN  /\ evolution_lines' = Append(evolution_lines, r)
           /\ line_rows' = line_rows \ {r}
    /\ UNCHANGED <<tables, sqlstate, environment, pc, work, iter, EvolutionLine, trait_query>>

LineDone ==
    /\ pc = "line_fetch"
    /\ line_rows = {}
    /\ pc' = "line_done"
    /\ UNCHANGED <<tables, sqlstate, environment, work, iter, line_query, trait_query>>

\* the trait query starts: the non-recursive term fills result and working table
ChainAnchorStep ==
    /\ pc = "line_done"
    /\ TablesOf("EvolutionChain") \subseteq relations
    /\ EvolutionChain' = ChainAnchor
    /\ work' = ChainAnchor
    /\ iter' = 0
    /\ pc' = "chain"
    /\ UNCHANGED <<tables, sqlstate, environment, line_query, rows, result>>

\* one iteration of the recursive term over the working table
ChainRecursiveStep ==
    /\ pc = "chain"
    /\ work # {}
    /\ iter < MaxIter
    /\ work' = ChainRecursive(work)
    /\ EvolutionChain' = EvolutionChain \cup ChainRecursive(work)
    /\ iter' = iter + 1
    /\ UNCHANGED <<tables, sqlstate, environment, pc, line_query, rows, result>>

\* the working table is empty: the remaining CTEs and the outer SELECT are evaluated
TraitSelectStep ==
    /\ pc = "chain"
    /\ work = {}
    /\ rows' = TraitSelect(EvolutionChain)
    /\ pc' = "fetch"
    /\ UNCHANGED <<tables, sqlstate, environment, work, iter, line_query, EvolutionChain, result>>

\* ORDER BY ct.coromon_id
FetchRow ==
    /\ pc = "fetch"
    /\ rows # {}
    /\ LET r == CHOOSE r \in rows : \A q \in rows : r.coromon_id <= q.coromon_id
       IN  /\ result' = Append(result, r)
           /\ rows' = rows \ {r}
    /\ UNCHANGED <<tables, sqlstate, environment, pc, work, iter, line_query, EvolutionChain>>

FetchDone ==
    /\ pc = "fetch"
    /\ rows = {}
    /\ pc' = "done"
    /\ UNCHANGED <<tables, sqlstate, environment, work, iter, line_query, trait_query>>

(* ---------------------- loading: single-row INSERTs -------------------- *)

LoadSpecies == 1 .. NumLoadSpecies

LoadedRows ==
    Cardinality(coromon) + Cardinality(coromon_evolutions) + Cardinality(traits)
        + Cardinality(trait_versions) + Cardinality(coromon_traits)

\* the tables as created, types filled, nothing else inserted yet
InitLoad ==
    /\ types = SeedTypes
    /\ type_effectiveness = {}
    /\ coromon = {} /\ coromon_evolutions = {}
    /\ traits = {} /\ trait_versions = {} /\ coromon_traits = {}
    /\ sqlstate = Success
    /\ QueryIdle
    /\ SchemaCreated
    /\ NoScript
    /\ BackendDown

\* coromon: coro_id PRIMARY KEY, name UNIQUE
InsertCoromon ==
    /\ LoadedRows < MaxLoadRows
    /\ \E id \in LoadSpecies, c \in CoromonOf(LoadSpecies) :
          IF \E x \in coromon : x.coro_id = id \/ x.name = c.name
          THEN /\ sqlstate' = UniqueViolation
               /\ UNCHANGED coromon
          ELSE /\ sqlstate' = Success
               /\ coromon' = coromon \cup {[coro_id |-> id, name |-> c.name]}
    /\ UNCHANGED <<types, type_effectiveness, coromon_evolutions, traits, trait_versions,
                   coromon_traits, pc, work, iter, line_query, trait_query, environment>>

\* coromon_evolutions: generated key; foreign keys on pre_evo_coro_id and
\* next_evo_coro_id only; coro_id is NOT NULL and nothing else
InsertEvolution ==
    /\ LoadedRows < MaxLoadRows
    /\ \E id \in LoadSpecies, pre \in LoadSpecies \cup {NULL}, next \in LoadSpecies \cup {NULL} :
          IF \/ pre # NULL /\ ~\E c \in coromon : c.coro_id = pre
             \/ next # NULL /\ ~\E c \in coromon : c.coro_id = next
          THEN /\ sqlstate' = ForeignKeyViolation
               /\ UNCHANGED coromon_evolutions
          ELSE /\ sqlstate' = Success
               /\ coromon_evolutions' = coromon_evolutions \cup
                     {[coro_id |-> id, pre_evo_coro_id |-> pre, next_evo_coro_id |-> next]}
    /\ UNCHANGED <<types, coromon, type_effectiveness, traits, trait_versions,
                   coromon_traits, pc, work, iter, line_query, trait_query, environment>>

\* traits: trait_id generated (1, 2, ...), name NOT NULL and nothing else
InsertTrait ==
    /\ LoadedRows < MaxLoadRows
    /\ \E t \in PoolTraits :
          traits' = traits \cup {[trait_id |-> Cardinality(traits) + 1, name |-> t.name]}
    /\ sqlstate' = Success
    /\ UNCHANGED <<types, coromon, type_effectiveness, coromon_evolutions, trait_versions,
                   coromon_traits, pc, work, iter, line_query, trait_query, environment>>

\* trait_versions: generated key, no foreign key
InsertTraitVersion ==
    /\ LoadedRows < MaxLoadRows
    /\ \E trait_id \in 1 .. NumTraitIds, plus \in {0, 1} :
          trait_versions' = trait_versions \cup {[trait_id |-> trait_id, plus |-> plus]}
    /\ sqlstate' = Success
    /\ UNCHANGED <<types, coromon, type_effectiveness, coromon_evolutions, traits,
                   coromon_traits, pc, work, iter, line_query, trait_query, environment>>

\* coromon_traits: foreign keys on trait_id and coro_id, PRIMARY KEY (trait_id, coro_id)
InsertCoromonTrait ==
    /\ LoadedRows < MaxLoadRows
    /\ \E trait_id \in 1 .. NumTraitIds, id \in LoadSpecies :
          IF \E x \in coromon_traits : x.trait_id = trait_id /\ x.coro_id = id
          THEN /\ sqlstate' = UniqueViolation
               /\ UNCHANGED coromon_traits
          ELSE IF \/ ~\E t \in traits : t.trait_id = trait_id
                  \/ ~\E c \in coromon : c.coro_id = id
          THEN /\ sqlstate' = ForeignKeyViolation
               /\ UNCHANGED coromon_traits
          ELSE /\ sqlstate' = Success
               /\ coromon_traits' = coromon_traits \cup
                     {[trait_id |-> trait_id, coro_id |-> id,
                       chance |-> SameNameChance(trait_id)]}
    /\ UNCHANGED <<types, coromon, type_effectiveness, coromon_evolutions, traits,
                   trait_versions, pc, work, iter, line_query, trait_query, environment>>

NextLoad ==
    \/ InsertCoromon
    \/ InsertEvolution
    \/ InsertTrait
    \/ InsertTraitVersion
    \/ InsertCoromonTrait

(* ------------------- the scripts: DROPs, then queries ------------------ *)

\* a script is started on the full schema, over a well-formed dataset
InitScript ==
    /\ coromon = CoromonOf(Species)
    /\ coromon_evolutions \in WellFormedLinks(Species)
    /\ traits = PoolTraits
    /\ trait_versions = PoolTraitVersions
    /\ coromon_traits = PoolTraitRows(Species)
    /\ ReferenceLoaded
    /\ QueryIdle
    /\ SchemaCreated
    /\ script \in Scripts /\ stmt = 1
    /\ BackendDown

\* the rows of a table after DROP of the relations gone
RowsAfter(name, table_rows, gone) == IF name \in gone THEN {} ELSE table_rows

\* the effect of dropping one object: IF EXISTS skips a missing one, an object
\* that an existing table depends on is not dropped
Drop(name) ==
    LET gone == IF name \in relations /\ ~\E r \in relations : <<r, name>> \in Depends
                THEN {name} ELSE {}
    IN  /\ sqlstate' = IF name \notin relations \/ gone # {} THEN Success
                       ELSE DependentObjectsStillExist
        /\ relations' = relations \ gone
        /\ types' = RowsAfter("types", types, gone)
        /\ coromon' = RowsAfter("coromon", coromon, gone)
        /\ type_effectiveness' = RowsAfter("type_effectiveness", type_effectiveness, gone)
        /\ coromon_evolutions' = RowsAfter("coromon_evolutions", coromon_evolutions, gone)
        /\ traits' = RowsAfter("traits", traits, gone)
        /\ trait_versions' = RowsAfter("trait_versions", trait_versions, gone)
        /\ coromon_traits' = RowsAfter("coromon_traits", coromon_traits, gone)

\* DROP TABLE IF EXISTS name;
DropTable ==
    /\ script \in Scripts
    /\ stmt \in DOMAIN DropsOf(script)
    /\ DropsOf(script)[stmt].kind = "TABLE"
    /\ Drop(DropsOf(script)[stmt].name)
    /\ stmt' = stmt + 1
    /\ UNCHANGED <<script, pc, work, iter, line_query, trait_query, startup>>

\* DROP TYPE IF EXISTS name;
DropType ==
    /\ script \in Scripts
    /\ stmt \in DOMAIN DropsOf(script)
    /\ DropsOf(script)[stmt].kind = "TYPE"
    /\ Drop(DropsOf(script)[stmt].name)
    /\ stmt' = stmt + 1
    /\ UNCHANGED <<script, pc, work, iter, line_query, trait_query, startup>>

\* a query of the script on tables that are gone: it fails and returns no row
QueryFails ==
    /\ script \in Scripts
    /\ stmt > Len(DropsOf(script))
    /\ stmt - Len(DropsOf(script)) \in DOMAIN QueriesOf(script)
    /\ ~(TablesOf(QueriesOf(script)[stmt - Len(DropsOf(script))]) \subseteq relations)
    /\ sqlstate' = UndefinedTable
    /\ stmt' = stmt + 1
    /\ UNCHANGED <<tables, relations, script, pc, work, iter, line_query, trait_query, startup>>

(* --------------------------- backend startup --------------------------- *)

\* the backend starts on the seeded database
InitStartup ==
    /\ coromon = SeedCoromon
    /\ coromon_evolutions = SeedEvolutions
    /\ traits = SeedTraits
    /\ trait_versions = SeedTraitVersions
    /\ coromon_traits = SeedCoromonTraits
    /\ ReferenceLoaded
    /\ QueryIdle
    /\ SchemaCreated
    /\ NoScript
    /\ BackendDown

database == <<tables, sqlstate, pc, work, iter, line_query, trait_query, script_run>>

\* const sequelize = require('./config/db');
RequireDb ==
    /\ main_pc = "off"
    /\ \E env_host \in EnvHosts, env_port \in EnvPorts :
          sequelize' = SequelizeOf(env_host, env_port)
    /\ main_pc' = "authenticate"
    /\ UNCHANGED <<database, auth, sync, console>>

\* sequelize.authenticate().then(...).catch(...): the call and both reactions
\* are set up in one synchronous statement
CallAuthenticate ==
    /\ main_pc = "authenticate"
    /\ auth' = Pending
    /\ main_pc' = "sync"
    /\ UNCHANGED <<database, sequelize, sync, console>>

\* sequelize.sync().then(...).catch(...)
CallSync ==
    /\ main_pc = "sync"
    /\ sync' = Pending
    /\ main_pc' = "end"
    /\ UNCHANGED <<database, sequelize, auth, console>>

\* the connection test succeeds; no callback runs before the script has ended
AuthenticateFulfils ==
    /\ main_pc = "end"
    /\ auth.state = "pending"
    /\ auth' = Settled(auth, "fulfilled")
    /\ UNCHANGED <<database, main_pc, sequelize, sync, console>>

\* the connection test fails
AuthenticateRejects ==
    /\ main_pc = "end"
    /\ auth.state = "pending"
    /\ auth' = Settled(auth, "rejected")
    /\ UNCHANGED <<database, main_pc, sequelize, sync, console>>

\* the next reaction of authenticate's chain
AuthenticateReaction ==
    /\ auth.state \in {"fulfilled", "rejected"}
    /\ auth.at \in DOMAIN AuthChain
    /\ auth' = Reacted(AuthChain, auth)
    /\ console' = console \o Logged(AuthChain, auth)
    /\ UNCHANGED <<database, main_pc, sequelize, sync>>

SyncFulfils ==
    /\ main_pc = "end"
    /\ sync.state = "pending"
    /\ sync' = Settled(sync, "fulfilled")
    /\ UNCHANGED <<database, main_pc, sequelize, auth, console>>

SyncRejects ==
    /\ main_pc = "end"
    /\ sync.state = "pending"
    /\ sync' = Settled(sync, "rejected")
    /\ UNCHANGED <<database, main_pc, sequelize, auth, console>>

\* the next reaction of sync's chain
SyncReaction ==
    /\ sync.state \in {"fulfilled", "rejected"}
    /\ sync.at \in DOMAIN SyncChain
    /\ sync' = Reacted(SyncChain, sync)
    /\ console' = console \o Logged(SyncChain, sync)
    /\ UNCHANGED <<database, main_pc, sequelize, auth>>

NextStartup ==
    \/ RequireDb
    \/ CallAuthenticate
    \/ CallSync
    \/ AuthenticateFulfils
    \/ AuthenticateRejects
    \/ AuthenticateReaction
    \/ SyncFulfils
    \/ SyncRejects
    \/ SyncReaction

NextScript ==
    \/ DropTable
    \/ DropType
    \/ QueryFails

Next ==
    \/ LineAnchorStep
    \/ LineRecursiveStep
    \/ LineSelectStep
    \/ FetchLineRow
    \/ LineDone
    \/ ChainAnchorStep
    \/ ChainRecursiveStep
    \/ TraitSelectStep
    \/ FetchRow
    \/ FetchDone

Spec == InitWellFormed /\ [][Next]_vars
SpecAny == InitAny /\ [][Next]_vars
SpecSeed == InitSeed /\ [][Next]_vars
SpecSameNames == InitSameNames /\ [][Next]_vars
SpecConsistent == InitConsistent /\ [][Next]_vars
SpecLoad == InitLoad /\ [][NextLoad]_vars
SpecScript == InitScript /\ [][NextScript]_vars
SpecStartup == InitStartup /\ [][NextStartup]_vars

(* ------------------- reference notions for the claims ------------------ *)
(* Read off the link rows directly, without the CTEs.  They are used on    *)
(* datasets with one row per species whose references form simple paths.   *)

LinkRow(id) == CHOOSE ce \in coromon_evolutions : ce.coro_id = id

RECURSIVE RefRoot(_)
RefRoot(id) ==
    IF LinkRow(id).pre_evo_coro_id = NULL THEN id ELSE RefRoot(LinkRow(id).pre_evo_coro_id)

RECURSIVE RefPosition(_)
RefPosition(id) ==
    IF LinkRow(id).pre_evo_coro_id = NULL THEN 1
    ELSE 1 + RefPosition(LinkRow(id).pre_evo_coro_id)

RECURSIVE RefTerminus(_)
RefTerminus(id) ==
    IF LinkRow(id).next_evo_coro_id = NULL THEN id
    ELSE RefTerminus(LinkRow(id).next_evo_coro_id)

LinkedIds == {ce.coro_id : ce \in coromon_evolutions}

RefMembers(root) == {id \in LinkedIds : RefRoot(id) = root}

RefLength(id) == Cardinality(RefMembers(RefRoot(id)))

\* the (trait name, chance) rows directly on a species
DirectTraits(id) ==
    {<<t.name, ct.chance>> : <<ct, t>> \in
        {p \in coromon_traits \X traits : p[1].coro_id = id /\ p[1].trait_id = p[2].trait_id}}

\* the (trait name, chance) pairs CombinedTraits carries for a species
CombinedOf(id) ==
    {<<r.trait_name, r.chance>> :
        r \in {r \in CombinedTraits(EvolutionChain) : r.coromon_id = id /\ r.chance # NULL}}

FormattedSet(S) == {Formatted(p[1], p[2]) : p \in S}

ResultRows == {result[i] : i \in DOMAIN result}

\* the recursion of the trait query has run to its end
ChainBuilt == pc \in {"fetch", "done"} \/ (pc = "chain" /\ work = {})

(* ------------------------------ claims -------------------------------- *)

\* C1: after chain building over well-formed links every species with a link
\* row is in exactly one chain at exactly one position, and the length
\* computed for a root is the number of distinct species of its chain.
C1_OneChainOnePosition ==
    ChainBuilt =>
        /\ \A id \in LinkedIds :
              Cardinality({ec \in EvolutionChain : ec.current_coro_id = id}) = 1
        /\ \A cl \in ChainLength(EvolutionChain) :
              /\ cl.total_length =
                    Cardinality({ec.current_coro_id :
                        ec \in {e \in EvolutionChain : e.original_coro_id = cl.original_coro_id}})
              /\ cl.total_length = Cardinality(RefMembers(cl.original_coro_id))

C1_Witness ==
    /\ ChainBuilt
    /\ \E cl \in ChainLength(EvolutionChain) : cl.total_length >= 3
    /\ Cardinality(ChainLength(EvolutionChain)) >= 2

\* C2: a species without direct trait rows resolves to exactly the (trait
\* name, chance) rows of the terminus of its chain, chances unchanged, and
\* its returned list is the formatting of exactly those rows.
C2_FallbackIsTerminus ==
    pc = "done" =>
        \A r \in ResultRows :
            DirectTraits(r.coromon_id) = {} =>
                /\ CombinedOf(r.coromon_id) = DirectTraits(RefTerminus(r.coromon_id))
                /\ r.traits.items = FormattedSet(DirectTraits(RefTerminus(r.coromon_id)))

C2_Witness ==
    /\ pc = "done"
    /\ \E r \in ResultRows :
          /\ DirectTraits(r.coromon_id) = {}
          /\ RefTerminus(r.coromon_id) # r.coromon_id
          /\ DirectTraits(RefTerminus(r.coromon_id)) # {}
          /\ r.traits.items # {}
          /\ \E o \in LinkedIds : o # RefTerminus(r.coromon_id) /\ DirectTraits(o) # {}

\* the tier table of the specification, by chain length and position
TierTable == <<  <<0>>,  <<2, 0>>,  <<2, 1, 0>>  >>

\* C3: on the seeded dataset the tier of every species is the table value
\* for its chain length and position.
C3_SeedTierMatchesTable ==
    pc = "done" =>
        /\ Len(result) = Cardinality(SeedCoromon)
        /\ \A r \in ResultRows :
              /\ RefLength(r.coromon_id) \in 1 .. 3
              /\ r.plus = TierTable[RefLength(r.coromon_id)][RefPosition(r.coromon_id)]

C3_Witness ==
    /\ pc = "done"
    /\ \A lp \in {<<1, 1>>, <<2, 1>>, <<2, 2>>, <<3, 1>>, <<3, 2>>, <<3, 3>>} :
          \E r \in ResultRows :
              /\ RefLength(r.coromon_id) = lp[1]
              /\ RefPosition(r.coromon_id) = lp[2]

\* C4: chain traversal takes at most as many steps as there are species and
\* then stops, also on links that violate the invariant.
C4_WalkBounded == pc \in {"line", "chain"} => iter <= Cardinality(coromon)

\* a successor cycle between two species
TwoCycle(a, b) ==
    /\ a # b
    /\ \E ce \in coromon_evolutions : ce.coro_id = a /\ ce.next_evo_coro_id = b
    /\ \E ce \in coromon_evolutions : ce.coro_id = b /\ ce.next_evo_coro_id = a

\* the query has returned its rows instead of failing
Returned == pc \in {"fetch", "done"}

\* C5: on links with the cycle A -> B -> A chain building ends in an error,
\* and neither A nor B gets a chain, a position or a tier.
C5_CycleRejected ==
    \A a, b \in LinkedIds :
        TwoCycle(a, b) =>
            /\ ~Returned
            /\ \A ec \in EvolutionChain : ec.current_coro_id \notin {a, b}
            /\ \A r \in rows \cup ResultRows : r.coromon_id \in {a, b} => r.plus = NULL

\* two link rows name the same predecessor, or the same successor
Branching ==
    \E x, y \in coromon_evolutions :
        /\ x.coro_id # y.coro_id
        /\ \/ x.pre_evo_coro_id # NULL /\ x.pre_evo_coro_id = y.pre_evo_coro_id
           \/ x.next_evo_coro_id # NULL /\ x.next_evo_coro_id = y.next_evo_coro_id

\* C6: on branching links chain building fails; no evolution line, chain
\* length, terminus or tier built from one of the branches is returned.
C6_BranchRejected ==
    Branching =>
        /\ line_rows = {} /\ evolution_lines = <<>>
        /\ rows = {} /\ result = <<>>

C8_TitanSingleStage ==
    \A c \in coromon :
        c.coro_id >= TitanBase =>
            /\ \A cp \in CoromonPlus(EvolutionChain) :
                  (cp.current_coro_id = c.coro_id \/ cp.coromon_id = c.coro_id) =>
                      /\ cp.coromon_id = c.coro_id /\ cp.current_coro_id = c.coro_id
                      /\ cp.chain_position = 1 /\ cp.total_length = 1
            /\ \A r \in ResultRows :
                  r.coromon_id = c.coro_id =>
                      /\ r.plus = 0
                      /\ r.traits.items = FormattedSet(DirectTraits(c.coro_id))

\* C9: the returned traits value is the sentinel exactly when the species has
\* no direct trait rows and the terminus of its chain has none either;
\* otherwise it is a non-empty list.
C9_SentinelIffBothEmpty ==
    pc = "done" =>
        \A r \in ResultRows :
            /\ (r.traits = NoTraitsAvailable) <=>
                  /\ DirectTraits(r.coromon_id) = {}
                  /\ DirectTraits(RefTerminus(r.coromon_id)) = {}
            /\ r.traits # NoTraitsAvailable => (~r.traits.sentinel /\ r.traits.items # {})

C9_Witness ==
    /\ pc = "done"
    /\ \E r \in ResultRows :
          /\ r.traits = NoTraitsAvailable
          /\ RefTerminus(r.coromon_id) # r.coromon_id
    /\ \E r \in ResultRows :
          /\ DirectTraits(r.coromon_id) = {}
          /\ r.traits # NoTraitsAvailable

\* C10: a species with direct trait rows resolves to exactly those rows,
\* whatever the trait rows of its chain's terminus are.
C10_DirectIgnoresFallback ==
    pc = "done" =>
        \A r \in ResultRows :
            DirectTraits(r.coromon_id) # {} =>
                /\ CombinedOf(r.coromon_id) = DirectTraits(r.coromon_id)
                /\ r.traits.items = FormattedSet(DirectTraits(r.coromon_id))
                /\ ~r.traits.sentinel

C10_Witness ==
    /\ pc = "done"
    /\ \E r \in ResultRows :
          /\ DirectTraits(r.coromon_id) # {}
          /\ RefTerminus(r.coromon_id) # r.coromon_id
          /\ DirectTraits(RefTerminus(r.coromon_id)) # {}
    /\ \E r \in ResultRows :
          /\ DirectTraits(r.coromon_id) # {}
          /\ RefTerminus(r.coromon_id) # r.coromon_id
          /\ DirectTraits(RefTerminus(r.coromon_id)) = {}

\* the EvolutionChain rows of the chain started at a root
ChainOf(root) == {ec \in EvolutionChain : ec.original_coro_id = root}

\* C11: in every chain built from well-formed links the positions of its N
\* species are exactly 1..N, each used once, the root at 1 and the species
\* without successor at N; so every position is at most the chain's length.
C11_PositionsCoverOneToN ==
    ChainBuilt =>
        /\ \A cl \in ChainLength(EvolutionChain) :
              /\ {ec.chain_position : ec \in ChainOf(cl.original_coro_id)} = 1 .. cl.total_length
              /\ Cardinality(ChainOf(cl.original_coro_id)) = cl.total_length
              /\ \A ec \in ChainOf(cl.original_coro_id) :
                    /\ (ec.chain_position = 1) <=> (ec.current_coro_id = cl.original_coro_id)
                    /\ (ec.chain_position = cl.total_length) <=>
                          (LinkRow(ec.current_coro_id).next_evo_coro_id = NULL)
        /\ \A cp \in CoromonPlus(EvolutionChain) :
              cp.chain_position \in 1 .. cp.total_length

C11_Witness ==
    /\ ChainBuilt
    /\ \E cl \in ChainLength(EvolutionChain) :
          /\ cl.total_length = 3
          /\ \E ec \in ChainOf(cl.original_coro_id) :
                ec.chain_position = 2 /\ ec.current_coro_id > cl.original_coro_id
    /\ \E cl \in ChainLength(EvolutionChain) : cl.total_length = 1

NameOf(id) == (CHOOSE c \in coromon : c.coro_id = id).name

\* the names of a chain from a species along the successor references
RECURSIVE RefNames(_)
RefNames(id) ==
    IF LinkRow(id).next_evo_coro_id = NULL THEN <<NameOf(id)>>
    ELSE <<NameOf(id)>> \o RefNames(LinkRow(id).next_evo_coro_id)

\* the same, ended before the first species with an id above MaxRegularId
RECURSIVE RefRegularNames(_)
RefRegularNames(id) ==
    IF id > MaxRegularId THEN <<>>
    ELSE IF LinkRow(id).next_evo_coro_id = NULL THEN <<NameOf(id)>>
    ELSE <<NameOf(id)>> \o RefRegularNames(LinkRow(id).next_evo_coro_id)

RefRoots == {id \in LinkedIds : LinkRow(id).pre_evo_coro_id = NULL}

\* a returned evolution_line read back: names at the odd places, ' -> ' between them
IsLineOf(line, names) ==
    /\ Len(line) = 2 * Len(names) - 1
    /\ \A i \in DOMAIN line :
          IF i % 2 = 1 THEN line[i] = names[(i + 1) \div 2] ELSE line[i] = " -> "

LineRowsOf(root) == {i \in DOMAIN evolution_lines : evolution_lines[i].base_coro_id = root}

\* C12 as stated: for every chain root of a well-formed link set the
\* evolution-line output has exactly one row, whose path lists the species
\* of the chain once each from the root to the species without successor.
C12_LinePerRoot ==
    pc = "line_done" =>
        \A root \in RefRoots :
            /\ Cardinality(LineRowsOf(root)) = 1
            /\ \A i \in LineRowsOf(root) :
                  IsLineOf(evolution_lines[i].evolution_line, RefNames(root))

\* C12 amended: the output has exactly one row for every chain root with an
\* id up to MaxRegularId and no other row; the path lists the species from
\* the root along the successor references, each once, and ends at the
\* species without successor or before the first species with a larger id.
C12_LinePerRegularRoot ==
    pc = "line_done" =>
        /\ {evolution_lines[i].base_coro_id : i \in DOMAIN evolution_lines}
              = {root \in RefRoots : root <= MaxRegularId}
        /\ \A root \in RefRoots :
              /\ Cardinality(LineRowsOf(root)) = (IF root <= MaxRegularId THEN 1 ELSE 0)
              /\ \A i \in LineRowsOf(root) :
                    IsLineOf(evolution_lines[i].evolution_line, RefRegularNames(root))

C12_Witness ==
    /\ pc = "line_done"
    /\ \E root \in RefRoots :
          /\ Len(RefNames(root)) = 4
          /\ Len(RefRegularNames(root)) = 2
          /\ \E i \in LineRowsOf(root) : Len(evolution_lines[i].evolution_line) = 3

\* species whose link row has neither predecessor nor successor
Unlinked ==
    {id \in LinkedIds :
        LinkRow(id).pre_evo_coro_id = NULL /\ LinkRow(id).next_evo_coro_id = NULL}

\* C13: a species whose link row has neither predecessor nor successor is
\* its own chain root with chain length 1 and position 1, and gets tier 0.
C13_UnlinkedIsSingleStage ==
    ChainBuilt =>
        \A id \in Unlinked :
            /\ {cp \in CoromonPlus(EvolutionChain) :
                    cp.current_coro_id = id \/ cp.coromon_id = id}
                  = {[coromon_id |-> id, current_coro_id |-> id, chain_position |-> 1,
                      total_length |-> 1, plus |-> 0]}
            /\ \A r \in rows \cup ResultRows : r.coromon_id = id => r.plus = 0

C13_Witness ==
    /\ pc = "done"
    /\ \E id \in Unlinked : \E r \in ResultRows : r.coromon_id = id /\ r.plus = 0
    /\ \E id \in LinkedIds : id \notin Unlinked
    /\ \E r \in ResultRows : r.plus = 2

\* a successor cycle of one or two species
Cyclic ==
    \/ \E ce \in coromon_evolutions : ce.next_evo_coro_id = ce.coro_id
    \/ \E a, b \in LinkedIds : TwoCycle(a, b)

\* a well-formed chain of one species: no references, and referenced by no row
Isolated(id) ==
    /\ \A ce \in coromon_evolutions :
          /\ ce.coro_id = id => (ce.pre_evo_coro_id = NULL /\ ce.next_evo_coro_id = NULL)
          /\ ce.pre_evo_coro_id # id /\ ce.next_evo_coro_id # id

\* C14: chain building is all-or-nothing: when the links hold a cycle or a
\* branch anywhere, no chain assignment is produced at all, also not for the
\* species of the other, well-formed chains of the same input.
C14_AllOrNothing ==
    (Cyclic \/ Branching) =>
        \A id \in LinkedIds :
            Isolated(id) =>
                /\ \A ec \in EvolutionChain : ec.current_coro_id # id
                /\ \A i \in DOMAIN evolution_lines : evolution_lines[i].base_coro_id # id
                /\ \A r \in ResultRows : r.coromon_id = id => r.plus = NULL

\* C15: in the trait list returned for a species each trait name appears at
\* most once, also when two of its trait rows carry the same name with
\* different chances.
C15_NameAtMostOnce ==
    \A r \in rows \cup ResultRows :
        \A x, y \in r.traits.items : x[1] = y[1] => x = y

IdOf(name) == (CHOOSE c \in coromon : c.name = name).coro_id

ResultOf(id) == {r \in ResultRows : r.coromon_id = id}

\* the four trait rows the seed gives Bearealis
BearealisTraits ==
    {<<"Stoic", 3500>>, <<"Sharp Claws", 2500>>, <<"Contained Power", 2500>>, <<"Nimble", 1500>>}

\* C16: on the seed Cubzero, Aroara and Bearealis form one chain of length 3
\* at positions 1, 2, 3 with tiers 2, 1, 0, and Cubzero and Aroara, which
\* have no trait rows of their own, resolve to exactly Bearealis's four
\* traits with Bearealis's chances.
C16_CubzeroChain ==
    pc = "done" =>
        LET stage == <<IdOf("Cubzero"), IdOf("Aroara"), IdOf("Bearealis")>>
        IN  /\ {cp \in CoromonPlus(EvolutionChain) :
                    cp.coromon_id \in {stage[i] : i \in 1 .. 3}
                    \/ cp.current_coro_id \in {stage[i] : i \in 1 .. 3}}
                  = {[coromon_id |-> stage[1], current_coro_id |-> stage[i],
                      chain_position |-> i, total_length |-> 3, plus |-> 3 - i] : i \in 1 .. 3}
            /\ \A i \in 1 .. 3 :
                  /\ Cardinality(ResultOf(stage[i])) = 1
                  /\ \A r \in ResultOf(stage[i]) :
                        /\ r.plus = 3 - i
                        /\ r.traits = [sentinel |-> FALSE,
                                       items |-> {<<"Stoic", 35>>, <<"Sharp Claws", 25>>,
                                                  <<"Contained Power", 25>>, <<"Nimble", 15>>}]
                  /\ CombinedOf(stage[i]) = BearealisTraits
            /\ DirectTraits(stage[1]) = {} /\ DirectTraits(stage[2]) = {}
            /\ DirectTraits(stage[3]) = BearealisTraits

C16_Witness ==
    /\ pc = "done"
    /\ \E r \in ResultRows :
          /\ r.coromon_name = "Cubzero" /\ r.plus = 2
          /\ Cardinality(r.traits.items) = 4
          /\ DirectTraits(r.coromon_id) = {}
    /\ \E r \in ResultRows : r.coromon_name = "Aroara" /\ r.plus = 1

\* following the successor references from a species never meets a species twice
RECURSIVE SuccessorWalkSimple(_, _)
SuccessorWalkSimple(id, visited) ==
    /\ id \notin visited
    /\ \A ce \in EvolutionsOf(id) :
          ce.next_evo_coro_id # NULL =>
              SuccessorWalkSimple(ce.next_evo_coro_id, visited \cup {id})

\* C17: the seeded link rows form a disjoint union of simple paths: no
\* species is the successor of two species, none the predecessor of two,
\* and following successor references never returns to a visited species.
C17_SeedLinksSimplePaths ==
    /\ \A x, y \in coromon_evolutions :
          x.coro_id # y.coro_id =>
              /\ x.next_evo_coro_id # NULL => x.next_evo_coro_id # y.next_evo_coro_id
              /\ x.pre_evo_coro_id # NULL => x.pre_evo_coro_id # y.pre_evo_coro_id
    /\ \A id \in LinkedIds : SuccessorWalkSimple(id, {})

C17_Witness ==
    /\ pc = "done"
    /\ Len(evolution_lines) > 0 /\ Len(result) > 0
    /\ \E x, y, z \in coromon_evolutions :
          /\ x.pre_evo_coro_id = NULL /\ x.next_evo_coro_id = y.coro_id
          /\ y.next_evo_coro_id = z.coro_id /\ z.next_evo_coro_id = NULL
    /\ \E x \in coromon_evolutions :
          x.coro_id >= TitanBase /\ x.next_evo_coro_id # NULL

\* the species ids of the seed
SeedSpeciesIds == (1 .. 124) \cup (1000 .. 1006)

\* C18: after seeding the link table holds exactly one row for every one of
\* the 131 species (ids 1..124 and 1000..1006): none is missing, none has two.
C18_SeedOneLinkRowPerSpecies ==
    /\ {c.coro_id : c \in coromon} = SeedSpeciesIds
    /\ Cardinality(coromon) = 131
    /\ LinkedIds = SeedSpeciesIds
    /\ \A id \in SeedSpeciesIds :
          /\ Cardinality(EvolutionsOf(id)) = 1
          /\ Cardinality({i \in DOMAIN SeedEvolutionRows : SeedEvolutionRows[i][1] = id}) = 1

C18_Witness ==
    /\ pc = "done"
    /\ Cardinality(coromon_evolutions) = 131
    /\ Len(result) = 131
    /\ \E ce \in coromon_evolutions : ce.coro_id = 124
    /\ \E ce \in coromon_evolutions : ce.coro_id = 1006

Attackers == {te.attacking_type_id : te \in type_effectiveness}
Defenders == {te.defending_type_id : te \in type_effectiveness}

TypeIds(names) == {t.type_id : t \in {t \in types : t.name \in names}}

\* the rows of the table, and of the INSERT, for an ordered pair
EffectivenessOf(a, d) ==
    {te \in type_effectiveness : te.attacking_type_id = a /\ te.defending_type_id = d}
InsertedFor(a, d) ==
    {i \in DOMAIN SeedTypeEffectivenessRows :
        SeedTypeEffectivenessRows[i][1] = a /\ SeedTypeEffectivenessRows[i][2] = d}

\* C19 as stated: in the seeded type-effectiveness data every ordered pair
\* of types that occur as attacking type has a multiplier row, and no
\* ordered pair has more than one row.
C19_TotalOverAttackers ==
    /\ \A a, d \in Attackers : EffectivenessOf(a, d) # {}
    /\ \A t, u \in types :
          /\ Cardinality(EffectivenessOf(t.type_id, u.type_id)) <= 1
          /\ Cardinality(InsertedFor(t.type_id, u.type_id)) <= 1

\* C19 amended: every type occurs as attacking type; the types that occur
\* as defending type are Normal, Electric, Ghost, Sand, Fire, Ice, Water and
\* Crimsonite; every pair of an attacking and a defending type has exactly
\* one row, and no pair has more than one.
C19_TotalOverAttackersAndDefenders ==
    /\ Attackers = {t.type_id : t \in types}
    /\ Defenders = TypeIds({"Normal", "Electric", "Ghost", "Sand", "Fire", "Ice", "Water",
                            "Crimsonite"})
    /\ Cardinality(Defenders) = 8
    /\ \A a \in Attackers, d \in Defenders :
          /\ Cardinality(EffectivenessOf(a, d)) = 1
          /\ Cardinality(InsertedFor(a, d)) = 1
    /\ \A t, u \in types :
          /\ Cardinality(EffectivenessOf(t.type_id, u.type_id)) <= 1
          /\ Cardinality(InsertedFor(t.type_id, u.type_id)) <= 1

C19_Witness ==
    /\ sqlstate = Success
    /\ Cardinality(type_effectiveness) = 112
    /\ \E a \in TypeIds({"Cut"}), d \in TypeIds({"Crimsonite"}) : EffectivenessOf(a, d) # {}
    /\ \E a \in TypeIds({"Normal"}), d \in TypeIds({"Magic"}) : EffectivenessOf(a, d) = {}
    /\ pc = "done"

\* no link row names, as its own species, a species that is not in coromon
NoDanglingLinkSpecies ==
    \A ce \in coromon_evolutions : \E c \in coromon : c.coro_id = ce.coro_id

\* no trait_versions row names a trait that is not in traits
NoDanglingTraitVersion ==
    \A tv \in trait_versions : \E t \in traits : t.trait_id = tv.trait_id

UniqueTraitNames == \A t, u \in traits : t.name = u.name => t = u

OneLinkRowPerSpecies ==
    \A x, y \in coromon_evolutions : x.coro_id = y.coro_id => x = y

\* C20: loading rejects every row that duplicates a unique key or holds a
\* dangling reference and leaves the tables as they were: no link row for a
\* species missing from coromon, no trait_versions row for a trait missing
\* from traits, no second trait with an existing name and no second link
\* row for a species is ever in the tables.
C20_LoadRejectsViolations ==
    /\ NoDanglingLinkSpecies
    /\ NoDanglingTraitVersion
    /\ UniqueTraitNames
    /\ OneLinkRowPerSpecies

\* C21: running the evolution-line script and the trait script never
\* creates, changes or deletes anything of the dataset: every step leaves
\* the contents of every table, and the tables themselves, as they were.
C21_ScriptsLeaveDatasetUnchanged == [][UNCHANGED <<tables, relations>>]_vars

\* the DROP statements of the script being run have all been executed
DropsDone == script \in Scripts /\ stmt > Len(DropsOf(script))

\* C29: from the full schema each list of DROP statements is dependency
\* safe: no DROP meets a table that still depends on the dropped object, so
\* every DROP succeeds, and after the last one no table is left.
C29_TeardownDependencySafe ==
    /\ sqlstate # DependentObjectsStillExist
    /\ DropsDone => relations = {}

\* the link rows and trait rows of the species of one species' chain
ChainLinks(id) == {ce \in coromon_evolutions : ce.coro_id \in RefMembers(RefRoot(id))}
ChainTraitRows(id) == {ct \in coromon_traits : ct.coro_id \in RefMembers(RefRoot(id))}

\* tier and trait list computed from those rows alone
LocalPosition(id) ==
    Cardinality({ce \in ChainLinks(id) : RefPosition(ce.coro_id) <= RefPosition(id)})
LocalLength(id) == Cardinality(ChainLinks(id))
LocalPlus(id) ==
    IF LocalLength(id) \in 1 .. 3 THEN TierTable[LocalLength(id)][LocalPosition(id)] ELSE NULL
LocalTerminus(id) ==
    (CHOOSE ce \in ChainLinks(id) : ce.next_evo_coro_id = NULL).coro_id
LocalNamed(id) ==
    {<<t.name, ct.chance>> : <<ct, t>> \in
        {p \in ChainTraitRows(id) \X traits :
            p[1].coro_id = id /\ p[1].trait_id = p[2].trait_id}}
LocalTraits(id) ==
    LET selected == IF LocalNamed(id) # {} THEN LocalNamed(id)
                    ELSE LocalNamed(LocalTerminus(id))
    IN  IF selected = {} THEN NoTraitsAvailable
        ELSE [sentinel |-> FALSE, items |-> FormattedSet(selected)]

\* C22: the tier and trait list returned for a species are determined by
\* the link rows and trait rows of the species of its own chain, whatever
\* the other chains of the dataset are.
C22_ResultIsLocalToChain ==
    pc = "done" =>
        \A r \in ResultRows :
            /\ r.plus = LocalPlus(r.coromon_id)
            /\ r.traits = LocalTraits(r.coromon_id)

C22_Witness ==
    /\ pc = "done"
    /\ \E r, q \in ResultRows :
          /\ RefRoot(r.coromon_id) # RefRoot(q.coromon_id)
          /\ RefLength(r.coromon_id) = 2 /\ RefLength(q.coromon_id) = 2
          /\ r.coromon_id < q.coromon_id
          /\ r.traits = NoTraitsAvailable
          /\ q.traits # NoTraitsAvailable
          /\ DirectTraits(q.coromon_id) = {}

\* the whole percent nearest to a chance given in ten-thousandths, halves up
NearestPercent(chance) ==
    CHOOSE p \in 0 .. 100 : 100 * p - 50 <= chance /\ chance < 100 * p + 50

\* the (trait name, chance) pairs that the rows CB carry for a species
NamedChances(CB, id) ==
    {<<r.trait_name, r.chance>> : r \in {r \in CB : r.coromon_id = id /\ r.chance # NULL}}

\* the items of a returned list are the resolved rows CB with nearest percents
ItemsAreNearestPercents(CB) ==
    \A r \in ResultRows :
        r.traits.items =
            {<<nc[1], NearestPercent(nc[2])>> : nc \in NamedChances(CB, r.coromon_id)}

\* C23 as stated: each trait of a returned list carries its chance rounded
\* to the nearest whole percent, and the returned list still carries the
\* unrounded chance of each trait.
C23_RoundedAndUnroundedReturned ==
    pc = "done" =>
        LET CB == CombinedTraits(EvolutionChain)
        IN  /\ ItemsAreNearestPercents(CB)
            /\ \A r \in ResultRows :
                  \A nc \in NamedChances(CB, r.coromon_id) :
                      \E item \in r.traits.items : item[1] = nc[1] /\ 100 * item[2] = nc[2]

\* C23 amended: each trait of a returned list carries its chance rounded to
\* the nearest whole percent (0.2143 -> 21, 0.3571 -> 36, 0.4286 -> 43) and
\* nothing else; the unrounded chance stays in the rows of CombinedTraits
\* and in coromon_traits, which the query leaves as seeded.
C23_RoundedForDisplayOnly ==
    pc = "done" =>
        LET CB == CombinedTraits(EvolutionChain)
        IN  /\ ItemsAreNearestPercents(CB)
            /\ \A r \in ResultOf(IdOf("Dugterra")) :
                  /\ r.traits.items = {<<"Vigilant", 21>>, <<"Escapist", 36>>, <<"Lucky", 43>>}
                  /\ NamedChances(CB, r.coromon_id)
                        = {<<"Vigilant", 2143>>, <<"Escapist", 3571>>, <<"Lucky", 4286>>}
            /\ \A r \in ResultRows :
                  DirectTraits(r.coromon_id) # {} =>
                      NamedChances(CB, r.coromon_id) = DirectTraits(r.coromon_id)
            /\ coromon_traits = SeedCoromonTraits

C23_Witness ==
    /\ pc = "done"
    /\ \E r \in ResultRows :
          /\ r.coromon_name = "Dugterra"
          /\ <<"Escapist", 36>> \in r.traits.items
          /\ <<"Escapist", 3571>> \in CombinedOf(r.coromon_id)

\* the (species, root, position, chain length) assignments of one evaluation
Assignments(EC) ==
    {<<p[1].current_coro_id, p[1].original_coro_id, p[1].chain_position, p[2].total_length>> :
        p \in {p \in EC \X ChainLength(EC) : p[1].original_coro_id = p[2].original_coro_id}}

\* EvolutionChain evaluated again from the link rows: the anchor, then the
\* recursive term until the working table is empty (at most n times)
RECURSIVE Evaluate(_, _, _)
Evaluate(EC, W, n) ==
    IF W = {} \/ n = 0 THEN EC
    ELSE Evaluate(EC \cup ChainRecursive(W), ChainRecursive(W), n - 1)

\* C24: chain building is deterministic: the (root, position, chain length)
\* assignment of every species is the one fixed by the link rows alone, one
\* per species, and a second evaluation on the same rows yields the same
\* assignments.
C24_ChainBuildingDeterministic ==
    ChainBuilt =>
        /\ Assignments(EvolutionChain) =
              {<<id, RefRoot(id), RefPosition(id), RefLength(id)>> : id \in LinkedIds}
        /\ Assignments(Evaluate(ChainAnchor, ChainAnchor, MaxIter)) = Assignments(EvolutionChain)

C24_Witness ==
    /\ pc = "done"
    /\ \E a \in Assignments(EvolutionChain) : a[3] = 3 /\ a[4] = 3
    /\ Cardinality({a[2] : a \in Assignments(EvolutionChain)}) >= 2

\* A's row names B as successor exactly when B's row names A as predecessor,
\* and every reference names a species that has a row
MutuallyConsistent ==
    /\ \A a, b \in coromon_evolutions :
          (a.next_evo_coro_id = b.coro_id) <=> (b.pre_evo_coro_id = a.coro_id)
    /\ \A a \in coromon_evolutions :
          /\ a.next_evo_coro_id # NULL => a.next_evo_coro_id \in LinkedIds
          /\ a.pre_evo_coro_id # NULL => a.pre_evo_coro_id \in LinkedIds

AllRegular == \A ce \in coromon_evolutions : ce.coro_id <= MaxRegularId

\* (root, member, place in the chain) as the evolution-line query finds them
LineChains == {<<el.base_coro_id, el.coro_id, Len(el.evolution_path)>> : el \in EvolutionLine}

\* (root, member, place in the chain) as the trait query finds them
TraitChains ==
    {<<ec.original_coro_id, ec.current_coro_id, ec.chain_position>> : ec \in EvolutionChain}

\* each path lists the names of the trait query's chain members in order
PathsInChainOrder ==
    \A el \in EvolutionLine :
        \A i \in 1 .. Len(el.evolution_path) :
            \E ec \in EvolutionChain :
                /\ ec.original_coro_id = el.base_coro_id
                /\ ec.chain_position = i
                /\ NameOf(ec.current_coro_id) = el.evolution_path[i]

\* the species that have no row in coromon_evolutions
Rowless == {c.coro_id : c \in coromon} \ LinkedIds

\* C25 as stated: on links whose predecessor and successor references are
\* mutually consistent and whose ids are all <= 999, the chains of the
\* evolution-line query and of the trait query have the same roots, the
\* same members and the same order.
C25_TraversalsAgree ==
    (ChainBuilt /\ MutuallyConsistent /\ AllRegular)
        => (LineChains = TraitChains /\ PathsInChainOrder)

\* C25 amended: on such links the two queries find the same chains over the
\* species that have a link row, in the same order; the trait query finds
\* one more single-stage chain for every species without a link row.
C25_TraversalsAgreeOnLinked ==
    (ChainBuilt /\ MutuallyConsistent /\ AllRegular)
        => /\ TraitChains = LineChains \cup {<<id, id, 1>> : id \in Rowless}
           /\ \A t \in LineChains : t[1] \notin Rowless /\ t[2] \notin Rowless
           /\ PathsInChainOrder

C25_Witness ==
    /\ pc = "done"
    /\ MutuallyConsistent /\ AllRegular
    /\ Rowless = {}
    /\ \E t \in LineChains : t[3] = 3
    /\ \E t \in TraitChains : t[3] = 3

\* a trait_versions row exists for a trait of the given name at the given plus
HasVersion(trait_name, plus) ==
    \E t \in traits : \E tv \in trait_versions :
        t.name = trait_name /\ tv.trait_id = t.trait_id /\ tv.plus = plus

\* C26: on the seed, for every species and every trait of its returned
\* list a trait_versions row exists for that trait at the plus returned for
\* the species.
C26_TierSelectsVersion ==
    pc = "done" =>
        \A r \in ResultRows : \A item \in r.traits.items : HasVersion(item[1], r.plus)

\* C27: on the seed no species is returned with 'No Traits Available' and
\* none with a NULL plus: every species without successor has a direct
\* trait row, and every species is reached from some root, so that each of
\* the seed's species is returned once with a non-empty list.
C27_SeedNoSentinelNoNullTier ==
    pc = "done" =>
        /\ \A r \in ResultRows : ~r.traits.sentinel /\ r.traits.items # {} /\ r.plus # NULL
        /\ \A ce \in coromon_evolutions :
              ce.next_evo_coro_id = NULL => DirectTraits(ce.coro_id) # {}
        /\ {ec.current_coro_id : ec \in EvolutionChain} = {c.coro_id : c \in coromon}
        /\ {r.coromon_id : r \in ResultRows} = {c.coro_id : c \in coromon}

C27_Witness ==
    /\ pc = "done"
    /\ Len(result) = Cardinality(SeedCoromon)
    /\ \E r \in ResultOf(IdOf("Cubzero")) : r.plus = 2 /\ ~r.traits.sentinel
    /\ DirectTraits(IdOf("Cubzero")) = {}

\* the condition_to_evolve texts seeded for a species' link rows
ConditionsOf(id) ==
    UNION {SeedEvolutionConditions[i] :
        i \in {j \in DOMAIN SeedEvolutionRows : SeedEvolutionRows[j][1] = id}}

\* C28: in the seeded link rows species A's row names B as successor
\* exactly when B's row names A as predecessor, and a row has an evolution
\* condition exactly when it has a successor.
C28_SeedLinksConsistent ==
    /\ \A a \in coromon_evolutions :
          a.next_evo_coro_id # NULL =>
              \E b \in coromon_evolutions :
                  b.coro_id = a.next_evo_coro_id /\ b.pre_evo_coro_id = a.coro_id
    /\ \A b \in coromon_evolutions :
          b.pre_evo_coro_id # NULL =>
              \E a \in coromon_evolutions :
                  a.coro_id = b.pre_evo_coro_id /\ a.next_evo_coro_id = b.coro_id
    /\ \A a \in coromon_evolutions :
          (ConditionsOf(a.coro_id) # {}) <=> (a.next_evo_coro_id # NULL)
    /\ Len(SeedEvolutionConditions) = Len(SeedEvolutionRows)

C28_Witness ==
    /\ pc = "done"
    /\ LinkRow(IdOf("Cubzero")).next_evo_coro_id = IdOf("Aroara")
    /\ LinkRow(IdOf("Aroara")).pre_evo_coro_id = IdOf("Cubzero")
    /\ ConditionsOf(IdOf("Cubzero")) = {"Level 16"}
    /\ LinkRow(IdOf("Bearealis")).next_evo_coro_id = NULL
    /\ ConditionsOf(IdOf("Bearealis")) = {}

Entry(h) == [stream |-> h.stream, text |-> h.text]

\* how often the callback of a chain's then (or catch) wrote its line
Written(chain, kind) ==
    Cardinality({i \in DOMAIN console :
        \E j \in DOMAIN chain : chain[j].kind = kind /\ console[i] = Entry(chain[j])})

\* C30: sync is started before any outcome of authenticate is known, so it
\* is attempted also when authenticate fails; a failure of either call is
\* caught by its own .catch and logged once under its own message, a
\* success once under its own; no chain ends in an unhandled rejection, and
\* whatever has become of one chain, the other can take its next step.
C30_StartupIndependent ==
    /\ auth.outcome \in {"fulfilled", "rejected"} => sync.outcome # "none"
    /\ ~UnhandledRejection(AuthChain, auth) /\ ~UnhandledRejection(SyncChain, sync)
    /\ Finished(AuthChain, auth) =>
          /\ Written(AuthChain, "catch") = (IF auth.outcome = "rejected" THEN 1 ELSE 0)
          /\ Written(AuthChain, "then") = (IF auth.outcome = "fulfilled" THEN 1 ELSE 0)
    /\ Finished(SyncChain, sync) =>
          /\ Written(SyncChain, "catch") = (IF sync.outcome = "rejected" THEN 1 ELSE 0)
          /\ Written(SyncChain, "then") = (IF sync.outcome = "fulfilled" THEN 1 ELSE 0)
    /\ (main_pc = "end" /\ ~Finished(SyncChain, sync)) =>
          ENABLED (SyncFulfils \/ SyncRejects \/ SyncReaction)
    /\ (main_pc = "end" /\ ~Finished(AuthChain, auth)) =>
          ENABLED (AuthenticateFulfils \/ AuthenticateRejects \/ AuthenticateReaction)

\* sync has completed first and authenticate has failed after it
C30_Witness ==
    /\ Finished(AuthChain, auth) /\ Finished(SyncChain, sync)
    /\ auth.outcome = "rejected" /\ sync.outcome = "fulfilled"
    /\ console = <<Entry(SyncChain[1]), Entry(AuthChain[2])>>

====
